---- MODULE Spec2Model ----
(***************************************************************************)
(* A model of gala's patch engine: InstructionPatch, BlobPatch, PatchSet   *)
(* (src/patches.py) and the disk-image patch lifecycle                     *)
(* (src/patches/dmg_patches.py, src/patches.py).                           *)
(*                                                                         *)
(* Buffers are sequences of bytes.  Python indexes from 0, TLA+ from 1:    *)
(* every offset below is a Python (0-based) offset and GetSlice/SetSlice   *)
(* carry the translation.  Addresses are scaled down to small integers.    *)
(***************************************************************************)
EXTENDS Integers, Sequences, FiniteSets, TLC

VARIABLES
    image,               \* the container stored at decrypted_image_path
    image_base_address,  \* the caller-supplied load base
    data,                \* the mutable byte buffer handed to apply
    before,              \* the buffer as it was when apply was entered
    op,                  \* which apply ran: "none" while nothing has run yet
    patch,               \* the patch value apply ran on
    result,              \* how the call ended: error, resolved offset, length
    events               \* the external tool and file calls apply made, in order

vars == <<image, image_base_address, data, before, op, patch, result, events>>

-----------------------------------------------------------------------------
(* Bounds of the model *)

\* number of 2-byte units in the initial buffer
NumHalfwords == 3

-----------------------------------------------------------------------------
(* Python's bytearray slicing: data[a:b] and data[a:b] = v *)

\* a slice bound as Python normalises it against a sequence of length n
PyIndex(i, n) ==
    IF i < 0 THEN (IF i + n < 0 THEN 0 ELSE i + n)
    ELSE IF i > n THEN n ELSE i

\* data[a:b]
GetSlice(s, a, b) ==
    LET lo == PyIndex(a, Len(s))
        hi == PyIndex(b, Len(s))
    IN  IF hi <= lo THEN <<>> ELSE SubSeq(s, lo + 1, hi)

\* data[a:b] = v on a bytearray: the slice is replaced by v, whatever its length
SetSlice(s, a, b, v) ==
    LET lo == PyIndex(a, Len(s))
        hi == PyIndex(b, Len(s))
        end == IF hi < lo THEN lo ELSE hi
    IN  SubSeq(s, 1, lo) \o v \o SubSeq(s, end + 1, Len(s))

-----------------------------------------------------------------------------
(* The disassembler and the assembler: a four-opcode Thumb-like             *)
(* instruction set with 2-byte and 4-byte encodings.                        *)
(*   <<0,0>>      nop                                                       *)
(*   <<1,n>>      movs r0, #n                                               *)
(*   <<2,d,3,3>>  bl #(address + 4 + 2*d)     (address-relative, 4 bytes)   *)
(* Every other byte pattern is undecodable.  The assembler also takes the   *)
(* data directive .short, whose output need not be an instruction.          *)

\* largest byte value of the instruction set's encodings
MaxByte == 3

Byte == 0..MaxByte

\* Instr.thumb(...).format.typical_size
typical_size(instr) == 2

\* cs.disasm(code, address): decodes instructions until the bytes run out or
\* stop decoding
RECURSIVE disasm(_, _)
disasm(code, address) ==
    IF Len(code) < 2 THEN <<>>
    ELSE IF code[1] = 0 /\ code[2] = 0
    THEN <<[mnemonic |-> "nop", op_str |-> "", size |-> 2]>>
            \o disasm(SubSeq(code, 3, Len(code)), address + 2)
    ELSE IF code[1] = 1
    THEN <<[mnemonic |-> "movs", op_str |-> "r0, #" \o ToString(code[2]), size |-> 2]>>
            \o disasm(SubSeq(code, 3, Len(code)), address + 2)
    ELSE IF code[1] = 2 /\ Len(code) >= 4 /\ code[3] = 3 /\ code[4] = 3
    THEN <<[mnemonic |-> "bl",
            op_str |-> "#" \o ToString(address + 4 + 2 * code[2]),
            size |-> 4]>>
            \o disasm(SubSeq(code, 5, Len(code)), address + 4)
    ELSE <<>>

\* assemble(address, instr): the encoded bytes, or a failure when the text is
\* no valid assembly at that address.  "mov r0, #n" is accepted as a spelling
\* of movs; "nop; nop" assembles to two instructions; ".short 0x0303" to two
\* bytes that are no instruction.
assemble(address, instr) ==
    IF instr = "nop" THEN [ok |-> TRUE, bytes |-> <<0, 0>>]
    ELSE IF instr = ".short 0x0303" THEN [ok |-> TRUE, bytes |-> <<3, 3>>]
    ELSE IF instr = "nop; nop" THEN [ok |-> TRUE, bytes |-> <<0, 0, 0, 0>>]
    ELSE IF \E n \in Byte : instr = "movs r0, #" \o ToString(n)
    THEN [ok |-> TRUE,
          bytes |-> <<1, CHOOSE n \in Byte : instr = "movs r0, #" \o ToString(n)>>]
    ELSE IF \E n \in Byte : instr = "mov r0, #" \o ToString(n)
    THEN [ok |-> TRUE,
          bytes |-> <<1, CHOOSE n \in Byte : instr = "mov r0, #" \o ToString(n)>>]
    ELSE IF \E d \in Byte : instr = "bl #" \o ToString(address + 4 + 2 * d)
    THEN [ok |-> TRUE,
          bytes |-> <<2, CHOOSE d \in Byte :
                            instr = "bl #" \o ToString(address + 4 + 2 * d), 3, 3>>]
    ELSE [ok |-> FALSE, bytes |-> <<>>]

-----------------------------------------------------------------------------
(* The structured-container parser (strongarm's MachoParser).  A container  *)
(* is either a raw image or a Mach-O whose address map is one section:      *)
(* addresses [address, address + size) live at file offset `offset` onward. *)

RawImage == [macho |-> FALSE, address |-> 0, offset |-> 0, size |-> 0]

\* MachoParser(path).is_magic_supported()
is_magic_supported(img) == img.macho

\* binary.file_offset_for_virtual_address(address): the section lookup, which
\* raises for an address no section maps
file_offset_for_virtual_address(img, address) ==
    IF img.address <= address /\ address < img.address + img.size
    THEN [ok |-> TRUE, offset |-> (address - img.address) + img.offset]
    ELSE [ok |-> FALSE, offset |-> 0]

-----------------------------------------------------------------------------
(* InstructionPatch.apply *)

None == <<>>
Some(n) == <<n>>

\* Python truthiness of `int | None`: None and 0 are false
Truthy(e) == e # None /\ e[1] # 0

RECURSIVE SumTypicalSize(_)
SumTypicalSize(instrs) ==
    IF instrs = <<>> THEN 0
    ELSE typical_size(Head(instrs)) + SumTypicalSize(Tail(instrs))

\* InstructionPatchOffset with the operands of the raw-image rule swapped
InstructionPatchOffsetSwapped(p, img, base) ==
    IF is_magic_supported(img)
    THEN file_offset_for_virtual_address(img, p.address)
    ELSE [ok |-> TRUE, offset |-> base - p.address]

\* the try block that resolves patch_file_offset
InstructionPatchOffset(p, img, base) ==
    IF is_magic_supported(img)
    THEN file_offset_for_virtual_address(img, p.address)
    ELSE [ok |-> TRUE, offset |-> p.address - base]

\* the text the pre-image check builds for a disassembled instruction
actual_orig_instruction_str(ins) == ins.mnemonic \o " " \o ins.op_str

\* the text the post-assembly check builds for a disassembled instruction
assembled_instr_str(ins) ==
    IF ins.op_str = "" THEN ins.mnemonic
    ELSE ins.mnemonic \o " " \o ins.op_str

\* ValidateOriginal without the comparison of the texts
ValidateOriginalNoText(p, buf, patch_file_offset) ==
    LET region_size == SumTypicalSize(p.orig_instructions)
        instr_bytes == GetSlice(buf, patch_file_offset, patch_file_offset + region_size)
        actual == IF Len(p.orig_instructions) # 0
                  THEN disasm(instr_bytes, p.address) ELSE <<>>
    IN  IF Len(actual) # Len(p.orig_instructions) THEN "orig_count" ELSE "none"

\* ValidateOriginal without the comparison of the counts: the texts are
\* compared pairwise as far as both lists go, as zip does
ValidateOriginalNoCount(p, buf, patch_file_offset) ==
    LET region_size == SumTypicalSize(p.orig_instructions)
        instr_bytes == GetSlice(buf, patch_file_offset, patch_file_offset + region_size)
        actual == IF Len(p.orig_instructions) # 0
                  THEN disasm(instr_bytes, p.address) ELSE <<>>
    IN  IF \E i \in 1..Len(actual) :
                /\ i <= Len(p.orig_instructions)
                /\ actual_orig_instruction_str(actual[i]) # p.orig_instructions[i]
        THEN "orig_text"
        ELSE "none"

\* ValidateOriginal reading the region the replacements will cover and
\* disassembling it whether or not originals are declared
ValidateOriginalReadsPatched(p, buf, patch_file_offset) ==
    LET region_size == SumTypicalSize(p.patched_instructions)
        instr_bytes == GetSlice(buf, patch_file_offset, patch_file_offset + region_size)
        actual == disasm(instr_bytes, p.address)
    IN  IF Len(actual) # Len(p.orig_instructions) THEN "orig_count"
        ELSE IF \E i \in 1..Len(actual) :
                    actual_orig_instruction_str(actual[i]) # p.orig_instructions[i]
        THEN "orig_text"
        ELSE "none"

\* the validation of the original instructions: "none" when it passes
ValidateOriginal(p, buf, patch_file_offset) ==
    LET region_size == SumTypicalSize(p.orig_instructions)
        instr_bytes == GetSlice(buf, patch_file_offset, patch_file_offset + region_size)
        actual == IF Len(p.orig_instructions) # 0
                  THEN disasm(instr_bytes, p.address) ELSE <<>>
    IN  IF Len(actual) # Len(p.orig_instructions) THEN "orig_count"
        ELSE IF \E i \in 1..Len(actual) :
                    actual_orig_instruction_str(actual[i]) # p.orig_instructions[i]
        THEN "orig_text"
        ELSE "none"

\* PatchLoop with the write moved before the checks of the disassembly: the
\* bytes are in the buffer when a check raises
RECURSIVE PatchLoopWriteFirst(_, _, _, _, _)
PatchLoopWriteFirst(instrs, patched_instr_address, patch_file_offset, patch_length, buf) ==
    IF instrs = <<>>
    THEN [data |-> buf, error |-> "none", patch_length |-> patch_length]
    ELSE
        LET patched_instr == Head(instrs)
            asm == assemble(patched_instr_address, patched_instr)
            assembled_bytes_len == Len(asm.bytes)
            disassembled_instrs == disasm(asm.bytes, patched_instr_address)
            written == SetSlice(buf, patch_file_offset,
                                patch_file_offset + assembled_bytes_len, asm.bytes)
        IN  IF ~asm.ok
            THEN [data |-> buf, error |-> "assemble", patch_length |-> patch_length]
            ELSE IF Len(disassembled_instrs) # 1
            THEN [data |-> written, error |-> "disasm_count", patch_length |-> patch_length]
            ELSE IF assembled_instr_str(disassembled_instrs[1]) # patched_instr
            THEN [data |-> written, error |-> "disasm_text", patch_length |-> patch_length]
            ELSE PatchLoopWriteFirst(Tail(instrs),
                                     patched_instr_address + assembled_bytes_len,
                                     patch_file_offset + assembled_bytes_len,
                                     patch_length + assembled_bytes_len,
                                     written)

\* PatchLoop with the cursors advanced by the typical size of the format
\* instead of the length of the assembled bytes
RECURSIVE PatchLoopTypicalSize(_, _, _, _, _)
PatchLoopTypicalSize(instrs, patched_instr_address, patch_file_offset, patch_length, buf) ==
    IF instrs = <<>>
    THEN [data |-> buf, error |-> "none", patch_length |-> patch_length]
    ELSE
        LET patched_instr == Head(instrs)
            asm == assemble(patched_instr_address, patched_instr)
            assembled_bytes_len == Len(asm.bytes)
            disassembled_instrs == disasm(asm.bytes, patched_instr_address)
        IN  IF ~asm.ok
            THEN [data |-> buf, error |-> "assemble", patch_length |-> patch_length]
            ELSE IF Len(disassembled_instrs) # 1
            THEN [data |-> buf, error |-> "disasm_count", patch_length |-> patch_length]
            ELSE IF assembled_instr_str(disassembled_instrs[1]) # patched_instr
            THEN [data |-> buf, error |-> "disasm_text", patch_length |-> patch_length]
            ELSE PatchLoopTypicalSize(Tail(instrs),
                           patched_instr_address + typical_size(patched_instr),
                           patch_file_offset + typical_size(patched_instr),
                           patch_length + typical_size(patched_instr),
                           SetSlice(buf, patch_file_offset,
                                    patch_file_offset + assembled_bytes_len, asm.bytes))

\* PatchLoop with the address cursor left at the address of the patch: only
\* the file-offset cursor advances
RECURSIVE PatchLoopFixedAddress(_, _, _, _, _)
PatchLoopFixedAddress(instrs, patched_instr_address, patch_file_offset, patch_length, buf) ==
    IF instrs = <<>>
    THEN [data |-> buf, error |-> "none", patch_length |-> patch_length]
    ELSE
        LET patched_instr == Head(instrs)
            asm == assemble(patched_instr_address, patched_instr)
            assembled_bytes_len == Len(asm.bytes)
            disassembled_instrs == disasm(asm.bytes, patched_instr_address)
        IN  IF ~asm.ok
            THEN [data |-> buf, error |-> "assemble", patch_length |-> patch_length]
            ELSE IF Len(disassembled_instrs) # 1
            THEN [data |-> buf, error |-> "disasm_count", patch_length |-> patch_length]
            ELSE IF assembled_instr_str(disassembled_instrs[1]) # patched_instr
            THEN [data |-> buf, error |-> "disasm_text", patch_length |-> patch_length]
            ELSE PatchLoopFixedAddress(Tail(instrs),
                           patched_instr_address,
                           patch_file_offset + assembled_bytes_len,
                           patch_length + assembled_bytes_len,
                           SetSlice(buf, patch_file_offset,
                                    patch_file_offset + assembled_bytes_len, asm.bytes))

\* the loop over patched_instructions, from the instruction at the head of
\* `instrs` on: assemble, check the round trip, write, advance the cursors
RECURSIVE PatchLoop(_, _, _, _, _)
PatchLoop(instrs, patched_instr_address, patch_file_offset, patch_length, buf) ==
    IF instrs = <<>>
    THEN [data |-> buf, error |-> "none", patch_length |-> patch_length]
    ELSE
        LET patched_instr == Head(instrs)
            asm == assemble(patched_instr_address, patched_instr)
            assembled_bytes_len == Len(asm.bytes)
            disassembled_instrs == disasm(asm.bytes, patched_instr_address)
        IN  IF ~asm.ok
            THEN [data |-> buf, error |-> "assemble", patch_length |-> patch_length]
            ELSE IF Len(disassembled_instrs) # 1
            THEN [data |-> buf, error |-> "disasm_count", patch_length |-> patch_length]
            ELSE IF assembled_instr_str(disassembled_instrs[1]) # patched_instr
            THEN [data |-> buf, error |-> "disasm_text", patch_length |-> patch_length]
            ELSE PatchLoop(Tail(instrs),
                           patched_instr_address + assembled_bytes_len,
                           patch_file_offset + assembled_bytes_len,
                           patch_length + assembled_bytes_len,
                           SetSlice(buf, patch_file_offset,
                                    patch_file_offset + assembled_bytes_len, asm.bytes))

\* the final check of the declared total length
LengthCheck(p, patch_length) ==
    IF Truthy(p.expected_length) /\ patch_length # p.expected_length[1]
    THEN "length" ELSE "none"

\* InstructionPatchApply with the buffer restored when the final length check
\* raises
InstructionPatchApplyRollback(p, img, base, buf) ==
    LET resolved == InstructionPatchOffset(p, img, base)
        checked == ValidateOriginal(p, buf, resolved.offset)
        looped == PatchLoop(p.patched_instructions, p.address, resolved.offset, 0, buf)
    IN  IF ~resolved.ok
        THEN [data |-> buf, error |-> "invalid_address",
              patch_file_offset |-> 0, patch_length |-> 0]
        ELSE IF checked # "none"
        THEN [data |-> buf, error |-> checked,
              patch_file_offset |-> resolved.offset, patch_length |-> 0]
        ELSE IF looped.error # "none"
        THEN [data |-> looped.data, error |-> looped.error,
              patch_file_offset |-> resolved.offset, patch_length |-> looped.patch_length]
        ELSE IF LengthCheck(p, looped.patch_length) # "none"
        THEN [data |-> buf, error |-> "length",
              patch_file_offset |-> resolved.offset, patch_length |-> looped.patch_length]
        ELSE [data |-> looped.data, error |-> "none",
              patch_file_offset |-> resolved.offset, patch_length |-> looped.patch_length]

\* InstructionPatch.apply(decrypted_image_path, image_base_address, data):
\* the buffer it leaves, the error it raised ("none" when it returned), the
\* offset it resolved and the length it wrote
InstructionPatchApply(p, img, base, buf) ==
    LET resolved == InstructionPatchOffset(p, img, base)
        checked == ValidateOriginal(p, buf, resolved.offset)
        looped == PatchLoop(p.patched_instructions, p.address, resolved.offset, 0, buf)
    IN  IF ~resolved.ok
        THEN [data |-> buf, error |-> "invalid_address",
              patch_file_offset |-> 0, patch_length |-> 0]
        ELSE IF checked # "none"
        THEN [data |-> buf, error |-> checked,
              patch_file_offset |-> resolved.offset, patch_length |-> 0]
        ELSE IF looped.error # "none"
        THEN [data |-> looped.data, error |-> looped.error,
              patch_file_offset |-> resolved.offset, patch_length |-> looped.patch_length]
        ELSE [data |-> looped.data, error |-> LengthCheck(p, looped.patch_length),
              patch_file_offset |-> resolved.offset, patch_length |-> looped.patch_length]

-----------------------------------------------------------------------------
(* BlobPatch.apply *)

\* the try block, then the unconditional assignment that follows it
BlobPatchOffset(p, img, base) ==
    LET tried == IF is_magic_supported(img)
                 THEN file_offset_for_virtual_address(img, p.address)
                 ELSE [ok |-> TRUE, offset |-> p.address - base]
    IN  [ok |-> tried.ok, offset |-> p.address - base]

\* the offset check guarding the write
BlobOffsetInvalid(patch_file_offset, buf) ==
    patch_file_offset < 0 \/ patch_file_offset >= Len(buf)

\* BlobPatchApply with the payload inserted at the offset instead of written
\* over the bytes there
BlobPatchApplyInserting(p, img, base, buf) ==
    LET resolved == BlobPatchOffset(p, img, base)
    IN  IF ~resolved.ok
        THEN [data |-> buf, error |-> "invalid_address",
              patch_file_offset |-> 0, patch_length |-> 0]
        ELSE IF BlobOffsetInvalid(resolved.offset, buf)
        THEN [data |-> buf, error |-> "invalid_offset",
              patch_file_offset |-> resolved.offset, patch_length |-> 0]
        ELSE [data |-> SetSlice(buf, resolved.offset, resolved.offset, p.new_content),
              error |-> "none",
              patch_file_offset |-> resolved.offset,
              patch_length |-> Len(p.new_content)]

BlobPatchApply(p, img, base, buf) ==
    LET resolved == BlobPatchOffset(p, img, base)
    IN  IF ~resolved.ok
        THEN [data |-> buf, error |-> "invalid_address",
              patch_file_offset |-> 0, patch_length |-> 0]
        ELSE IF BlobOffsetInvalid(resolved.offset, buf)
        THEN [data |-> buf, error |-> "invalid_offset",
              patch_file_offset |-> resolved.offset, patch_length |-> 0]
        ELSE [data |-> SetSlice(buf, resolved.offset,
                                resolved.offset + Len(p.new_content), p.new_content),
              error |-> "none",
              patch_file_offset |-> resolved.offset,
              patch_length |-> Len(p.new_content)]

-----------------------------------------------------------------------------
(* PatchSet.apply and the dispatch of Patch.apply on the patch's class *)

RECURSIVE PatchApply(_, _, _, _)
RECURSIVE PatchSetLoop(_, _, _, _)

\* PatchSetLoop taking the members last to first
RECURSIVE PatchSetLoopReversed(_, _, _, _)
PatchSetLoopReversed(patches, img, base, buf) ==
    IF patches = <<>>
    THEN [data |-> buf, error |-> "none", patch_file_offset |-> 0, patch_length |-> 0]
    ELSE LET r == PatchApply(patches[Len(patches)], img, base, buf)
         IN  IF r.error # "none" THEN r
             ELSE PatchSetLoopReversed(SubSeq(patches, 1, Len(patches) - 1),
                                       img, base, r.data)

\* PatchSetLoop going on to the next member when one raises, the first error
\* reported once the loop is over
RECURSIVE PatchSetLoopSkipping(_, _, _, _)
PatchSetLoopSkipping(patches, img, base, buf) ==
    IF patches = <<>>
    THEN [data |-> buf, error |-> "none", patch_file_offset |-> 0, patch_length |-> 0]
    ELSE LET r == PatchApply(Head(patches), img, base, buf)
             rest == PatchSetLoopSkipping(Tail(patches), img, base, r.data)
         IN  IF r.error # "none" THEN [r EXCEPT !.data = rest.data] ELSE rest

\* PatchSetLoop handing a member that is itself a PatchSet a copy of the
\* buffer: what the nested set writes is lost
RECURSIVE PatchSetLoopIsolated(_, _, _, _)
PatchSetLoopIsolated(patches, img, base, buf) ==
    IF patches = <<>>
    THEN [data |-> buf, error |-> "none", patch_file_offset |-> 0, patch_length |-> 0]
    ELSE LET r == PatchApply(Head(patches), img, base, buf)
         IN  IF r.error # "none" THEN r
             ELSE PatchSetLoopIsolated(Tail(patches), img, base,
                                       IF Head(patches).kind = "PatchSet"
                                       THEN buf ELSE r.data)

\* for patch in self.patches: patch.apply(...), an exception ending the loop
PatchSetLoop(patches, img, base, buf) ==
    IF patches = <<>>
    THEN [data |-> buf, error |-> "none", patch_file_offset |-> 0, patch_length |-> 0]
    ELSE LET r == PatchApply(Head(patches), img, base, buf)
         IN  IF r.error # "none" THEN r
             ELSE PatchSetLoop(Tail(patches), img, base, r.data)

PatchSetApply(p, img, base, buf) == PatchSetLoop(p.patches, img, base, buf)

PatchApply(p, img, base, buf) ==
    IF p.kind = "InstructionPatch" THEN InstructionPatchApply(p, img, base, buf)
    ELSE IF p.kind = "BlobPatch" THEN BlobPatchApply(p, img, base, buf)
    ELSE PatchSetApply(p, img, base, buf)

-----------------------------------------------------------------------------
(* apply_patches: the top-level loop over the patches of an image *)

\* for patch in patches: patch.apply(patcher_config, input, base_address,
\* patched_bytes), an exception ending the loop
RECURSIVE apply_patches_loop(_, _, _, _)
apply_patches_loop(patches, img, base, patched_bytes) ==
    IF patches = <<>>
    THEN [data |-> patched_bytes, error |-> "none",
          patch_file_offset |-> 0, patch_length |-> 0]
    ELSE LET r == PatchApply(Head(patches), img, base, patched_bytes)
         IN  IF r.error # "none" THEN r
             ELSE apply_patches_loop(Tail(patches), img, base, r.data)

\* apply_patches writing the output file in a finally clause: it is written
\* with whatever the buffer holds when a patch raised
apply_patches_write_always(patches, img, base, files) ==
    LET looped == apply_patches_loop(patches, img, base, files.input)
    IN  looped @@ [files |-> [files EXCEPT !.output = Some(looped.data)]]

\* apply_patches(patcher_config, image_type, input, output, patches): read
\* the input file, patch a bytearray copy of its bytes, write the copy to the
\* output file.  `files` holds the bytes of the two files, None for a file
\* that does not exist.
apply_patches(patches, img, base, files) ==
    LET looped == apply_patches_loop(patches, img, base, files.input)
    IN  looped @@ [files |-> IF looped.error # "none" THEN files
                             ELSE [files EXCEPT !.output = Some(looped.data)]]

-----------------------------------------------------------------------------
(* The disk-image lifecycle: DmgPatchSet.apply with its _mount_dmg, and     *)
(* RamdiskBinaryPatch.apply with the module-level _mount_dmg.               *)
(*                                                                          *)
(* A disk image's bytes are abstracted to its size and to the list of       *)
(* filesystem edits it holds.  The outcomes of the external calls (hdiutil, *)
(* the filesystem patches, ldid) are inputs: `env` says, for each call,     *)
(* whether it succeeds if it is reached.  A call is recorded in the log of  *)
(* events with its outcome; `arg` is the index of the filesystem patch for  *)
(* a "patch" event and 0 otherwise.                                         *)

Ev(call, ok, arg) == [call |-> call, ok |-> ok, arg |-> arg]

\* the 4 MiB of headroom DmgPatchSet.apply adds
extra_room == 1024 * 1024 * 4

\* the divisor of line 48, 1024 * 1024
MiB == 1024 * 1024

\* A byte count is kept in units of 2^40, 2^20 and 1, so that sizes at the
\* precision limit of a Python float fit the integers of the model:
\* hi * 2^40 + mid * 2^20 + lo, with mid and lo below 2^20.
ByteCount(hi, mid, lo) ==
    LET m == mid + lo \div MiB
    IN  [hi |-> hi + m \div MiB, mid |-> m % MiB, lo |-> lo % MiB]

\* a count of MiB: hi * 2^20 + mid
MiBCount(hi, mid) == [hi |-> hi + mid \div MiB, mid |-> mid % MiB]

\* the significand of a Python float
float_mant_dig == 53

RECURSIVE bit_length(_)
bit_length(n) == IF n = 0 THEN 0 ELSE 1 + bit_length(n \div 2)

RECURSIVE Pow2(_)
Pow2(n) == IF n = 0 THEN 1 ELSE 2 * Pow2(n - 1)

\* x / 1024 / 1024 in float arithmetic: the quotient rounded to the nearest
\* float, ties to even.  The result is whole MiB plus lo / 2^20, where lo has
\* lost the bits the significand has no room for (lo = 2^20 when the fraction
\* rounded up to one).  Dividing a float by 1024 is exact, so the two
\* divisions round once.
TrueDivMiB(x) ==
    LET int_bits == IF x.hi > 0 THEN 20 + bit_length(x.hi) ELSE bit_length(x.mid)
        lost == IF int_bits + 20 <= float_mant_dig THEN 0
                ELSE int_bits + 20 - float_mant_dig
        ulp == Pow2(lost)
        k == x.lo \div ulp
        r == x.lo % ulp
        kept == IF 2 * r < ulp THEN k
                ELSE IF 2 * r > ulp THEN k + 1
                ELSE IF k % 2 = 0 THEN k ELSE k + 1
    IN  [hi |-> x.hi, mid |-> x.mid, lo |-> kept * ulp]

\* math.ceil of such a float
Ceil(y) == IF y.lo = 0 THEN MiBCount(y.hi, y.mid) ELSE MiBCount(y.hi, y.mid + 1)

\* ceil(increased_dmg_size / 1024 / 1024)
total_dmg_size_in_mb(current_dmg_size) ==
    LET increased_dmg_size == ByteCount(current_dmg_size.hi, current_dmg_size.mid,
                                        current_dmg_size.lo + extra_room)
    IN  Ceil(TrueDivMiB(increased_dmg_size))

\* hdiutil resize -size <n>M
Resized(img, size_in_mb) ==
    [img EXCEPT !.size = ByteCount(size_in_mb.hi, size_in_mb.mid, 0)]

\* DmgPatchLoop taking the patches last to first
RECURSIVE DmgPatchLoopReversed(_, _, _, _)
DmgPatchLoopReversed(patches, k, env, st) ==
    LET m == Len(patches) - k + 1
    IN  IF k > Len(patches) THEN st
        ELSE IF env.patches[m]
        THEN DmgPatchLoopReversed(patches, k + 1, env,
                                  [events |-> Append(st.events, Ev("patch", TRUE, m)),
                                   scratch |-> [st.scratch EXCEPT
                                                    !.edits = Append(@, patches[m])],
                                   error |-> "none"])
        ELSE [events |-> Append(st.events, Ev("patch", FALSE, m)),
              scratch |-> st.scratch,
              error |-> "patch"]

\* DmgPatchLoop going on to the next patch when one fails, the failure
\* raised once the loop is through
RECURSIVE DmgPatchLoopContinuing(_, _, _, _)
DmgPatchLoopContinuing(patches, k, env, st) ==
    IF k > Len(patches) THEN st
    ELSE IF env.patches[k]
    THEN DmgPatchLoopContinuing(patches, k + 1, env,
                      [events |-> Append(st.events, Ev("patch", TRUE, k)),
                       scratch |-> [st.scratch EXCEPT
                                        !.edits = Append(@, patches[k])],
                       error |-> st.error])
    ELSE DmgPatchLoopContinuing(patches, k + 1, env,
                      [events |-> Append(st.events, Ev("patch", FALSE, k)),
                       scratch |-> st.scratch,
                       error |-> "patch"])

\* for patch in self.patches: patch.apply(config, mounted_dmg_root), from
\* patch k on; st is the log so far, the scratch image and the error raised
RECURSIVE DmgPatchLoop(_, _, _, _)
DmgPatchLoop(patches, k, env, st) ==
    IF k > Len(patches) THEN st
    ELSE IF env.patches[k]
    THEN DmgPatchLoop(patches, k + 1, env,
                      [events |-> Append(st.events, Ev("patch", TRUE, k)),
                       scratch |-> [st.scratch EXCEPT
                                        !.edits = Append(@, patches[k])],
                       error |-> "none"])
    ELSE [events |-> Append(st.events, Ev("patch", FALSE, k)),
          scratch |-> st.scratch,
          error |-> "patch"]

\* DmgPatchSetMountEnter with the attach inside the try: a failed attach is
\* followed by the detach of the finally clause
DmgPatchSetMountEnterInsideTry(env, st) ==
    IF env.attach
    THEN [events |-> Append(st.events, Ev("attach", TRUE, 0)),
          scratch |-> st.scratch, error |-> "none"]
    ELSE [events |-> st.events \o <<Ev("attach", FALSE, 0), Ev("detach", env.detach, 0)>>,
          scratch |-> st.scratch, error |-> "attach"]

\* DmgPatchSet._mount_dmg up to its yield: hdiutil attach -mountpoint
DmgPatchSetMountEnter(env, st) ==
    [events |-> Append(st.events, Ev("attach", env.attach, 0)),
     scratch |-> st.scratch,
     error |-> IF env.attach THEN "none" ELSE "attach"]

\* DmgPatchSetMountExit as if the detach followed the yield with no
\* try/finally: an exception in the body skips it
DmgPatchSetMountExitNoFinally(env, st) ==
    IF st.error # "none" THEN st
    ELSE [events |-> Append(st.events, Ev("detach", env.detach, 0)),
          scratch |-> st.scratch,
          error |-> IF env.detach THEN "none" ELSE "detach"]

\* DmgPatchSetMountExit with the exit status of the detach ignored
DmgPatchSetMountExitUnchecked(env, st) ==
    [events |-> Append(st.events, Ev("detach", env.detach, 0)),
     scratch |-> st.scratch,
     error |-> st.error]

\* DmgPatchSet._mount_dmg from its yield on: the finally clause detaches
\* whether the body raised or not, and a failing detach raises in its turn
DmgPatchSetMountExit(env, st) ==
    [events |-> Append(st.events, Ev("detach", env.detach, 0)),
     scratch |-> st.scratch,
     error |-> IF env.detach THEN st.error ELSE "detach"]

\* DmgPatchSet.apply(config, decrypted_image_path, image_base_address,
\* image_data): the log, the buffer it leaves and the error it raised
DmgPatchSetApply(p, env, buf) ==
    LET written == [events |-> <<Ev("write_bytes", env.materialize, 0)>>,
                    scratch |-> buf,
                    error |-> IF env.materialize THEN "none" ELSE "write_bytes"]
        resized == [events |-> Append(written.events, Ev("resize", env.resize, 0)),
                    scratch |-> Resized(buf, total_dmg_size_in_mb(buf.size)),
                    error |-> IF env.resize THEN "none" ELSE "resize"]
        entered == DmgPatchSetMountEnter(env, resized)
        left == DmgPatchSetMountExit(env, DmgPatchLoop(p.patches, 1, env, entered))
    IN  IF written.error # "none"
        THEN [events |-> written.events, data |-> buf, error |-> written.error]
        ELSE IF resized.error # "none"
        THEN [events |-> resized.events, data |-> buf, error |-> resized.error]
        ELSE IF entered.error # "none"
        THEN [events |-> entered.events, data |-> buf, error |-> entered.error]
        ELSE IF left.error # "none"
        THEN [events |-> left.events, data |-> buf, error |-> left.error]
        ELSE [events |-> Append(left.events, Ev("read_bytes", TRUE, 0)),
              data |-> left.scratch,
              error |-> "none"]

\* the module-level _mount_dmg up to its yield: hdiutil attach -plist, then
\* the mount point is read out of the plist the tool printed
MountEnter(env, st) ==
    IF ~env.attach
    THEN [events |-> Append(st.events, Ev("attach", FALSE, 0)),
          scratch |-> st.scratch, error |-> "attach"]
    ELSE [events |-> Append(Append(st.events, Ev("attach", TRUE, 0)),
                            Ev("mount-point", env.mount_point, 0)),
          scratch |-> st.scratch,
          error |-> IF env.mount_point THEN "none" ELSE "mount-point"]

\* the module-level _mount_dmg from its yield on: the finally clause
MountExit(env, st) ==
    [events |-> Append(st.events, Ev("detach", env.detach, 0)),
     scratch |-> st.scratch,
     error |-> IF env.detach THEN st.error ELSE "detach"]

\* RamdiskBinaryPatch._apply_patch(ramdisk_root): find the binary, read its
\* virtual base, read its bytes, apply the inner patch to them, write them
\* back, run ldid
RamdiskApplyPatch(p, env, st) ==
    IF ~env.exists
    THEN [events |-> Append(st.events, Ev("exists", FALSE, 0)),
          scratch |-> st.scratch, error |-> "exists"]
    ELSE IF ~env.virtual_base
    THEN [events |-> st.events \o <<Ev("exists", TRUE, 0),
                                    Ev("virtual_base", FALSE, 0)>>,
          scratch |-> st.scratch, error |-> "virtual_base"]
    ELSE IF ~env.patches[1]
    THEN [events |-> st.events \o <<Ev("exists", TRUE, 0),
                                    Ev("virtual_base", TRUE, 0),
                                    Ev("read_binary", TRUE, 0),
                                    Ev("patch", FALSE, 1)>>,
          scratch |-> st.scratch, error |-> "patch"]
    ELSE [events |-> st.events \o <<Ev("exists", TRUE, 0),
                                    Ev("virtual_base", TRUE, 0),
                                    Ev("read_binary", TRUE, 0),
                                    Ev("patch", TRUE, 1),
                                    Ev("write_back", TRUE, 0), Ev("ldid", env.ldid, 0)>>,
          scratch |-> [st.scratch EXCEPT !.edits = Append(@, p.inner_patch)],
          error |-> IF env.ldid THEN "none" ELSE "ldid"]

\* RamdiskBinaryPatch.apply(decrypted_image_path, image_base_address,
\* image_data): the scratch copy is taken from the file at
\* decrypted_image_path and resized to 20M
RamdiskBinaryPatchApply(p, env, file, buf) ==
    LET copied == [events |-> <<Ev("copy", env.materialize, 0)>>,
                   scratch |-> file,
                   error |-> IF env.materialize THEN "none" ELSE "copy"]
        resized == [events |-> Append(copied.events, Ev("resize", env.resize, 0)),
                    scratch |-> Resized(file, MiBCount(0, 20)),
                    error |-> IF env.resize THEN "none" ELSE "resize"]
        entered == MountEnter(env, resized)
        left == MountExit(env, RamdiskApplyPatch(p, env, entered))
    IN  IF copied.error # "none"
        THEN [events |-> copied.events, data |-> buf, error |-> copied.error]
        ELSE IF resized.error # "none"
        THEN [events |-> resized.events, data |-> buf, error |-> resized.error]
        ELSE IF entered.error # "none"
        THEN [events |-> entered.events, data |-> buf, error |-> entered.error]
        ELSE IF left.error # "none"
        THEN [events |-> left.events, data |-> buf, error |-> left.error]
        ELSE [events |-> Append(left.events, Ev("read_bytes", TRUE, 0)),
              data |-> left.scratch,
              error |-> "none"]

\* MachoBlobPatch.apply(decrypted_image_path, image_base_address,
\* image_data): the binary is parsed from the file at decrypted_image_path,
\* new_content is written into it at the address, and the buffer becomes the
\* bytes of that modified binary
MachoBlobPatchApply(p, env, file, buf) ==
    IF ~env.parse
    THEN [events |-> <<Ev("parse", FALSE, 0)>>, data |-> buf, error |-> "parse"]
    ELSE IF ~env.write
    THEN [events |-> <<Ev("parse", TRUE, 0), Ev("write", FALSE, 0)>>,
          data |-> buf, error |-> "write"]
    ELSE [events |-> <<Ev("parse", TRUE, 0), Ev("write", TRUE, 0)>>,
          data |-> [file EXCEPT !.edits = Append(@, p.new_content)],
          error |-> "none"]

-----------------------------------------------------------------------------
(* The inputs: containers, buffers and patch values *)

\* the 2-byte units initial buffers are made of: nop, movs r0, #1, and the
\* two halves of a bl
Halfwords == {<<0, 0>>, <<1, 1>>, <<2, 1>>, <<3, 3>>}

RECURSIVE Flatten(_)
Flatten(units) == IF units = <<>> THEN <<>> ELSE Head(units) \o Flatten(Tail(units))

Buffers == {Flatten(u) : u \in [1..NumHalfwords -> Halfwords]}

\* a raw image (iBSS, iBEC) and a Mach-O whose only section maps addresses
\* 20.. to file offsets 2..
Images ==
    {RawImage,
     [macho |-> TRUE, address |-> 20, offset |-> 2, size |-> 2 * NumHalfwords - 2]}

\* image_type.base_address
BaseAddresses == {16, 18}

InstrAddresses == {14, 16, 18, 20, 22, 24}

OrigLists ==
    {<<>>, <<"nop">>, <<"movs r0, #1">>,
     <<"movs r0, #1", "movs r0, #1">>, <<"movs r0, #1", "nop">>}

PatchedLists ==
    {<<"nop">>, <<"movs r0, #2">>, <<"bl #26">>, <<"mov r0, #1">>, <<"nop; nop">>,
     <<"movs r0, #2", "movs r0, #2">>, <<"movs r0, #2", "bl #26">>,
     <<"movs r0, #2", "mov r0, #1">>,
     <<".short 0x0303">>, <<"nop; nop", "movs r0, #2">>}

ExpectedLengths == {None, Some(0), Some(4)}

InstructionPatches ==
    [kind : {"InstructionPatch"}, address : InstrAddresses,
     orig_instructions : OrigLists, patched_instructions : PatchedLists,
     expected_length : ExpectedLengths]

BlobAddresses == 14..24

BlobContents == {<<>>, <<3>>, <<0, 0>>, <<1, 2, 3>>}

BlobPatches ==
    [kind : {"BlobPatch"}, address : BlobAddresses, new_content : BlobContents]

\* the members PatchSets are built from
SetMembers ==
    [kind : {"BlobPatch"}, address : 16..20, new_content : {<<3>>, <<0, 0>>, <<1, 2, 3>>}]

PatchSets ==
    {[kind |-> "PatchSet", patches |-> <<a, b>>] : a \in SetMembers, b \in SetMembers}

NoPatch == [kind |-> "none"]
NoResult == [error |-> "none", patch_file_offset |-> 0, patch_length |-> 0]

-----------------------------------------------------------------------------
(* The state machine: one container, one buffer, one call of apply *)

Init ==
    /\ image \in Images
    /\ image_base_address \in BaseAddresses
    /\ data \in Buffers
    /\ before = data
    /\ op = "none"
    /\ patch = NoPatch
    /\ result = NoResult
    /\ events = <<>>

\* patch.apply(decrypted_image_path, image_base_address, data) has run
Applied(name, p) ==
    /\ op = "none"
    /\ op' = name
    /\ patch' = p
    /\ before' = data
    /\ LET r == PatchApply(p, image, image_base_address, data)
       IN  /\ data' = r.data
           /\ result' = [error |-> r.error,
                         patch_file_offset |-> r.patch_file_offset,
                         patch_length |-> r.patch_length]
    /\ UNCHANGED <<image, image_base_address, events>>

ApplyInstructionPatch == \E p \in InstructionPatches : Applied("InstructionPatch", p)

ApplyBlobPatch == \E p \in BlobPatches : Applied("BlobPatch", p)

ApplyPatchSet == \E p \in PatchSets : Applied("PatchSet", p)

Next == ApplyInstructionPatch \/ ApplyBlobPatch \/ ApplyPatchSet

Spec == Init /\ [][Next]_vars

-----------------------------------------------------------------------------
(* The filesystem patches on the mounted root.  The tree under the root is  *)
(* the set of its directories and the set of its files, each a path (the    *)
(* sequence of its components) relative to the root; `patched` holds the    *)
(* files whose bytes a binary patch has rewritten, `content` the pairs of a *)
(* file and its bytes, `mode` the pairs of a file and a permission it       *)
(* grants ("r", "w" or "x").                                                *)

\* q is p or lies beneath p
Beneath(p, q) == Len(q) >= Len(p) /\ SubSeq(q, 1, Len(p)) = p

\* Path.exists()
PathExists(tree, path) == path \in tree.dirs \cup tree.files

\* DmgRemoveTreePatch.apply with the targeted directory emptied and left in
\* place
RemoveTreeContentsOnly(p, tree) ==
    IF \E n \in 1..Len(p.tree_path) : SubSeq(p.tree_path, 1, n) \in tree.files
    THEN [tree |-> tree, error |-> "not_a_directory"]
    ELSE IF p.tree_path \notin tree.dirs
    THEN [tree |-> tree, error |-> "not_found"]
    ELSE [tree |-> [dirs |-> {q \in tree.dirs :
                                 q = p.tree_path \/ ~Beneath(p.tree_path, q)},
                    files |-> {q \in tree.files : ~Beneath(p.tree_path, q)},
                    patched |-> {q \in tree.patched : ~Beneath(p.tree_path, q)},
                    content |-> {c \in tree.content : ~Beneath(p.tree_path, c[1])},
                    mode |-> {m \in tree.mode : ~Beneath(p.tree_path, m[1])}],
          error |-> "none"]

\* DmgRemoveTreePatch.apply(config, mounted_ramdisk_path):
\* shutil.rmtree(mounted_ramdisk_path / tree_path) raises NotADirectoryError
\* when the path or one of its parents is a file, FileNotFoundError when
\* nothing is there, and removes a directory with all that is beneath it
DmgRemoveTreePatchApply(p, tree) ==
    IF \E n \in 1..Len(p.tree_path) : SubSeq(p.tree_path, 1, n) \in tree.files
    THEN [tree |-> tree, error |-> "not_a_directory"]
    ELSE IF p.tree_path \notin tree.dirs
    THEN [tree |-> tree, error |-> "not_found"]
    ELSE [tree |-> [dirs |-> {q \in tree.dirs : ~Beneath(p.tree_path, q)},
                    files |-> {q \in tree.files : ~Beneath(p.tree_path, q)},
                    patched |-> {q \in tree.patched : ~Beneath(p.tree_path, q)},
                    content |-> {c \in tree.content : ~Beneath(p.tree_path, c[1])},
                    mode |-> {m \in tree.mode : ~Beneath(p.tree_path, m[1])}],
          error |-> "none"]

\* DmgBinaryPatch.apply(config, ramdisk_root): find the binary, read its
\* virtual base, read its bytes, apply the inner patch to them, write them
\* back, save a copy under PATCHED_IMAGES_ROOT.  The parser cannot read a
\* directory; whether it can read the file, and the outcomes of the inner
\* patch and of the saving, are in env.
DmgBinaryPatchApply(p, env, tree) ==
    IF ~PathExists(tree, p.binary_path)
    THEN [events |-> <<Ev("exists", FALSE, 0)>>, tree |-> tree, error |-> "exists"]
    ELSE IF p.binary_path \in tree.dirs \/ ~env.virtual_base
    THEN [events |-> <<Ev("exists", TRUE, 0), Ev("virtual_base", FALSE, 0)>>,
          tree |-> tree, error |-> "virtual_base"]
    ELSE IF ~env.inner_patch
    THEN [events |-> <<Ev("exists", TRUE, 0), Ev("virtual_base", TRUE, 0),
                       Ev("read_binary", TRUE, 0), Ev("patch", FALSE, 1)>>,
          tree |-> tree, error |-> "patch"]
    ELSE [events |-> <<Ev("exists", TRUE, 0), Ev("virtual_base", TRUE, 0),
                       Ev("read_binary", TRUE, 0), Ev("patch", TRUE, 1),
                       Ev("write_back", TRUE, 0), Ev("save_copy", env.save_copy, 0)>>,
          tree |-> [tree EXCEPT !.patched = @ \cup {p.binary_path}],
          error |-> IF env.save_copy THEN "none" ELSE "save_copy"]

\* the directories above a path, up to the root
Parents(path) == {SubSeq(path, 1, n) : n \in 1..(Len(path) - 1)}

\* the bytes of a file
ContentOf(tree, path) == {c[2] : c \in {d \in tree.content : d[1] = path}}

\* the permissions a file grants
ModeOf(tree, path) == {m[2] : m \in {n \in tree.mode : n[1] = path}}

\* Chmod as `chmod =flag`: the file is left with that permission alone
ChmodExact(tree, path, perm) ==
    [tree EXCEPT !.mode = {m \in @ : m[1] # path} \cup {<<path, perm>>}]

\* FilePermission.apply_to_file(file): chmod +r, +w or +x
Chmod(tree, path, perm) == [tree EXCEPT !.mode = @ \cup {<<path, perm>>}]

\* for perm in perms: perm.apply_to_file(qualified_path), from permission k
\* on; st is the log so far, the tree and the error raised.  env.chmod_fails
\* is the index of the chmod that exits non-zero, 0 when none does.
RECURSIVE ApplyPermissions(_, _, _, _, _)
ApplyPermissions(perms, k, env, path, st) ==
    IF k > Len(perms) THEN st
    ELSE IF env.chmod_fails = k
    THEN [events |-> Append(st.events, Ev("chmod", FALSE, k)),
          tree |-> st.tree, error |-> "chmod"]
    ELSE ApplyPermissions(perms, k + 1, env, path,
                          [events |-> Append(st.events, Ev("chmod", TRUE, k)),
                           tree |-> Chmod(st.tree, path, perms[k]),
                           error |-> "none"])

\* DmgReplaceFileContentsPatch.apply(config, mounted_ramdisk_path):
\* parent.mkdir(parents=True, exist_ok=True) raises when a parent is a file,
\* write_bytes raises when the path is a directory, keeps the mode of a file
\* that is there and creates a new one readable and writable; then the
\* permissions, if any, are applied one by one
DmgReplaceFileContentsPatchApply(p, env, tree) ==
    LET path == p.file_path
        made == [tree EXCEPT !.dirs = @ \cup Parents(path)]
        written ==
            [made EXCEPT
                !.files = @ \cup {path},
                !.content = {c \in @ : c[1] # path} \cup {<<path, p.new_content>>},
                !.mode = IF path \in tree.files THEN @
                         ELSE @ \cup {<<path, "r">>, <<path, "w">>}]
    IN  IF \E q \in Parents(path) : q \in tree.files
        THEN [events |-> <<Ev("mkdir", FALSE, 0)>>, tree |-> tree, error |-> "mkdir"]
        ELSE IF path \in tree.dirs
        THEN [events |-> <<Ev("mkdir", TRUE, 0), Ev("write_bytes", FALSE, 0)>>,
              tree |-> made, error |-> "write_bytes"]
        ELSE ApplyPermissions(p.new_permissions, 1, env, path,
                              [events |-> <<Ev("mkdir", TRUE, 0),
                                            Ev("write_bytes", TRUE, 0)>>,
                               tree |-> written, error |-> "none"])

-----------------------------------------------------------------------------
(* The state machine of the disk-image patches: one image file, one buffer, *)
(* one call of apply                                                        *)

\* most filesystem patches in a DmgPatchSet
MaxDmgPatches == 2

\* st_size of the image, in bytes: sizes around 0 and 1 MiB, and sizes that
\* with the 4 MiB of headroom come to 2^53 - 1, 2^53, ..., 2^53 + 3
DmgSizes ==
    {ByteCount(0, 0, 0), ByteCount(0, 0, 1), ByteCount(0, 0, MiB - 1),
     ByteCount(0, 1, 0), ByteCount(0, 1, 1)}
    \cup {ByteCount(Pow2(13) - 1, MiB - 5, MiB - 1)}
    \cup {ByteCount(Pow2(13) - 1, MiB - 4, lo) : lo \in 0..3}

\* the image files: nothing edited yet
DiskImages == [size : DmgSizes, edits : {<<>>}]

\* the filesystem patches, by name
DmgPatches == {"tar", "replace"}

DmgPatchSets ==
    {[kind |-> "DmgPatchSet", patches |-> ps] :
        ps \in UNION {[1..n -> DmgPatches] : n \in 0..MaxDmgPatches}}

RamdiskBinaryPatches ==
    [kind : {"RamdiskBinaryPatch"}, binary_path : {"sbin/asr"}, inner_patch : {"inner"}]

\* the outcomes of the external calls, should they be reached
Envs ==
    [materialize : BOOLEAN, resize : BOOLEAN, attach : BOOLEAN,
     mount_point : BOOLEAN, exists : BOOLEAN, virtual_base : BOOLEAN,
     ldid : BOOLEAN, detach : BOOLEAN,
     patches : [1..MaxDmgPatches -> BOOLEAN]]

\* the buffer holds the bytes of the file, or those bytes as an earlier patch
\* of the same run has already edited them in memory
InitDmg ==
    /\ image \in DiskImages
    /\ image_base_address = 0
    /\ data \in {image, [image EXCEPT !.edits = <<"earlier">>]}
    /\ before = data
    /\ op = "none"
    /\ patch = NoPatch
    /\ result = NoResult
    /\ events = <<>>

AppliedDmg(name, p, r) ==
    /\ op = "none"
    /\ op' = name
    /\ patch' = p
    /\ before' = data
    /\ data' = r.data
    /\ events' = r.events
    /\ result' = [error |-> r.error, patch_file_offset |-> 0, patch_length |-> 0]
    /\ UNCHANGED <<image, image_base_address>>

ApplyDmgPatchSet ==
    \E p \in DmgPatchSets, env \in Envs :
        AppliedDmg("DmgPatchSet", p, DmgPatchSetApply(p, env, data))

ApplyRamdiskBinaryPatch ==
    \E p \in RamdiskBinaryPatches, env \in Envs :
        AppliedDmg("RamdiskBinaryPatch", p, RamdiskBinaryPatchApply(p, env, image, data))

MachoBlobPatches ==
    [kind : {"MachoBlobPatch"}, address : {0}, new_content : {"blob"}]

\* whether the file parses as a Mach-O with an armv7 slice, and whether the
\* address lies in it
MachoEnvs == [parse : BOOLEAN, write : BOOLEAN]

ApplyMachoBlobPatch ==
    \E p \in MachoBlobPatches, env \in MachoEnvs :
        AppliedDmg("MachoBlobPatch", p, MachoBlobPatchApply(p, env, image, data))

NextDmg == ApplyDmgPatchSet \/ ApplyRamdiskBinaryPatch \/ ApplyMachoBlobPatch

SpecDmg == InitDmg /\ [][NextDmg]_vars

-----------------------------------------------------------------------------
(* The state machine of the grouped patches: PatchSets whose members are    *)
(* InstructionPatches, PatchSets nested in PatchSets, and the top-level     *)
(* list of apply_patches.  The containers are those of Init; the buffers    *)
(* hold instructions only.                                                  *)

PatchSetOf(patches) == [kind |-> "PatchSet", patches |-> patches]

\* the members of the two-member sets: InstructionPatches at two addresses
\* that write what another declares as its originals
MixedMembers ==
    [kind : {"InstructionPatch"}, address : {18, 20},
     orig_instructions : {<<>>, <<"nop">>, <<"movs r0, #1">>, <<"movs r0, #2">>},
     patched_instructions : {<<"nop">>, <<"movs r0, #2">>,
                             <<"movs r0, #2", "mov r0, #1">>},
     expected_length : {None}]

MixedPatchSets == {PatchSetOf(<<a, b>>) : a \in MixedMembers, b \in MixedMembers}

\* the members of the nested sets and of the top-level lists, all at address
\* 20: one that writes unconditionally, one that verifies what the first wrote
\* and fails after its first write, a BlobPatch, and one that verifies what
\* the buffer may hold from the start
NestedMembers ==
    {[kind |-> "InstructionPatch", address |-> 20, orig_instructions |-> <<>>,
      patched_instructions |-> <<"movs r0, #2">>, expected_length |-> None],
     [kind |-> "InstructionPatch", address |-> 20,
      orig_instructions |-> <<"movs r0, #2">>,
      patched_instructions |-> <<"nop", "mov r0, #1">>, expected_length |-> None],
     [kind |-> "BlobPatch", address |-> 21, new_content |-> <<3>>],
     [kind |-> "InstructionPatch", address |-> 20,
      orig_instructions |-> <<"movs r0, #1">>,
      patched_instructions |-> <<"nop">>, expected_length |-> None]}

\* most patches in a top-level list
MaxPatches == 3

PatchLists == [1..MaxPatches -> NestedMembers]

\* the ways the sets group a list: a set in a set, a set before or after a
\* plain member, two sets side by side
Nestings(patches) ==
    {PatchSetOf(<<PatchSetOf(<<PatchSetOf(patches)>>)>>)}
    \cup {PatchSetOf(<<PatchSetOf(SubSeq(patches, 1, i))>>
                     \o SubSeq(patches, i + 1, Len(patches))) :
                i \in 1..(Len(patches) - 1)}
    \cup {PatchSetOf(SubSeq(patches, 1, i)
                     \o <<PatchSetOf(SubSeq(patches, i + 1, Len(patches)))>>) :
                i \in 1..(Len(patches) - 1)}
    \cup {PatchSetOf(<<PatchSetOf(SubSeq(patches, 1, i)),
                       PatchSetOf(SubSeq(patches, i + 1, Len(patches)))>>) :
                i \in 1..(Len(patches) - 1)}

NestedPatchSets == UNION {Nestings(patches) : patches \in PatchLists}

\* the buffers: every 2-byte unit is a nop or a movs r0, #1
SetBuffers == {Flatten(u) : u \in [1..NumHalfwords -> {<<0, 0>>, <<1, 1>>}]}

InitSets ==
    /\ image \in Images
    /\ image_base_address \in BaseAddresses
    /\ data \in SetBuffers
    /\ before = data
    /\ op = "none"
    /\ patch = NoPatch
    /\ result = NoResult
    /\ events = <<>>

ApplyMixedPatchSet == \E p \in MixedPatchSets : Applied("PatchSet", p)

ApplyNestedPatchSet == \E p \in NestedPatchSets : Applied("PatchSet", p)

\* one call of apply_patches: the buffer of the state is the bytes of the
\* input file, the output file does not exist yet (patch_image unlinks it);
\* the call leaves its bytearray in `data` and the two files in `result`
ApplyPatches ==
    \E patches \in PatchLists :
        /\ op = "none"
        /\ op' = "apply_patches"
        /\ patch' = [kind |-> "patches", patches |-> patches]
        /\ before' = data
        /\ LET r == apply_patches(patches, image, image_base_address,
                                  [input |-> data, output |-> None])
           IN  /\ data' = r.data
               /\ result' = [error |-> r.error,
                             patch_file_offset |-> r.patch_file_offset,
                             patch_length |-> r.patch_length,
                             input |-> r.files.input,
                             output |-> r.files.output]
               /\ events' = IF r.files.output # None
                            THEN <<Ev("write_bytes", TRUE, 0)>> ELSE <<>>
        /\ UNCHANGED <<image, image_base_address>>

NextSets == ApplyMixedPatchSet \/ ApplyNestedPatchSet \/ ApplyPatches

SpecSets == InitSets /\ [][NextSets]_vars

-----------------------------------------------------------------------------
(* The state machine of the filesystem patches: one mounted tree, one call  *)
(* of a filesystem patch's apply                                            *)

\* deepest level of the trees
MaxDepth == 2

\* the names of the entries of a directory
Names == {"bin", "app"}

EmptyTree == [dirs |-> {}, files |-> {}, patched |-> {}, content |-> {}, mode |-> {}]

MergeTrees(s, t) ==
    [dirs |-> s.dirs \cup t.dirs, files |-> s.files \cup t.files,
     patched |-> s.patched \cup t.patched,
     content |-> s.content \cup t.content, mode |-> s.mode \cup t.mode]

\* a directory and nothing in it
DirNode(path) == [EmptyTree EXCEPT !.dirs = {path}]

\* a file of one byte; one named bin is readable and executable, any other
\* readable and writable
FileNode(path) ==
    [EmptyTree EXCEPT !.files = {path},
                      !.content = {<<path, <<0>>>>},
                      !.mode = IF path[Len(path)] = "bin"
                               THEN {<<path, "r">>, <<path, "x">>}
                               ELSE {<<path, "r">>, <<path, "w">>}]

\* what can be at `path` with d levels left: nothing, a file, or a directory
\* with, under each name, what can be there with one level less
RECURSIVE NodeTrees(_, _)
NodeTrees(path, d) ==
    {EmptyTree, FileNode(path)}
    \cup IF d = 1 THEN {DirNode(path)}
         ELSE {MergeTrees(DirNode(path), MergeTrees(s, t)) :
                   s \in NodeTrees(path \o <<"bin">>, d - 1),
                   t \in NodeTrees(path \o <<"app">>, d - 1)}

Trees ==
    {MergeTrees(s, t) : s \in NodeTrees(<<"bin">>, MaxDepth),
                        t \in NodeTrees(<<"app">>, MaxDepth)}

\* the relative paths the patches name
RelativePaths == UNION {[1..n -> Names] : n \in 1..MaxDepth}

DmgRemoveTreePatches == [kind : {"DmgRemoveTreePatch"}, tree_path : RelativePaths]

DmgBinaryPatches ==
    [kind : {"DmgBinaryPatch"}, binary_path : {<<"bin">>, <<"bin", "app">>},
     inner_patch : {"inner"}]

FsEnvs == [virtual_base : BOOLEAN, inner_patch : BOOLEAN, save_copy : BOOLEAN]

InitFs ==
    /\ image = RawImage
    /\ image_base_address = 0
    /\ data \in Trees
    /\ before = data
    /\ op = "none"
    /\ patch = NoPatch
    /\ result = NoResult
    /\ events = <<>>

AppliedFs(name, p, r) ==
    /\ op = "none"
    /\ op' = name
    /\ patch' = p
    /\ before' = data
    /\ data' = r.tree
    /\ events' = r.events
    /\ result' = [error |-> r.error, patch_file_offset |-> 0, patch_length |-> 0]
    /\ UNCHANGED <<image, image_base_address>>

ApplyDmgRemoveTreePatch ==
    \E p \in DmgRemoveTreePatches :
        LET r == DmgRemoveTreePatchApply(p, data)
        IN  AppliedFs("DmgRemoveTreePatch", p,
                      [tree |-> r.tree, error |-> r.error, events |-> <<>>])

ApplyDmgBinaryPatch ==
    \E p \in DmgBinaryPatches, env \in FsEnvs :
        AppliedFs("DmgBinaryPatch", p, DmgBinaryPatchApply(p, env, data))

\* the files the replacing patches name: at the root, in a directory, two
\* directories down
DmgReplaceFileContentsPatches ==
    [kind : {"DmgReplaceFileContentsPatch"},
     file_path : {<<"bin">>, <<"app">>, <<"bin", "app">>, <<"app", "bin", "app">>},
     new_content : {<<>>, <<1, 2>>},
     new_permissions : {None, <<"r", "w">>, <<"x", "r">>}]

\* which chmod exits non-zero: none, the first, the second
ReplaceEnvs == [chmod_fails : {0, 1, 2}]

ApplyDmgReplaceFileContentsPatch ==
    \E p \in DmgReplaceFileContentsPatches, env \in ReplaceEnvs :
        AppliedFs("DmgReplaceFileContentsPatch", p,
                  DmgReplaceFileContentsPatchApply(p, env, data))

NextFs ==
    ApplyDmgRemoveTreePatch \/ ApplyDmgBinaryPatch \/ ApplyDmgReplaceFileContentsPatch

SpecFs == InitFs /\ [][NextFs]_vars

-----------------------------------------------------------------------------
(* Vocabulary of the properties *)

\* the canonical text of a decoded instruction: mnemonic, then a space and
\* the operands when there are operands
CanonicalText(ins) ==
    IF ins.op_str = "" THEN ins.mnemonic ELSE ins.mnemonic \o " " \o ins.op_str

CanonicalTexts(instrs) == [i \in 1..Len(instrs) |-> CanonicalText(instrs[i])]

\* the bytes [offset, offset + n) of a buffer are all there
RegionInside(buf, offset, n) == 0 <= offset /\ offset + n <= Len(buf)

\* the bytes [offset, offset + n) of a buffer that holds them all
Region(buf, offset, n) == [i \in 1..n |-> buf[offset + i]]

\* every instruction of the list, assembled at its cursor address, decodes back
\* to exactly its own text
RECURSIVE AllRoundTrip(_, _)
AllRoundTrip(instrs, address) ==
    \/ instrs = <<>>
    \/ LET asm == assemble(address, Head(instrs))
           back == disasm(asm.bytes, address)
       IN  /\ asm.ok
           /\ Len(back) = 1
           /\ CanonicalText(back[1]) = Head(instrs)
           /\ AllRoundTrip(Tail(instrs), address + Len(asm.bytes))

\* the sum of the encoded lengths of a list that assembles
RECURSIVE EncodedLength(_, _)
EncodedLength(instrs, address) ==
    IF instrs = <<>> THEN 0
    ELSE LET n == Len(assemble(address, Head(instrs)).bytes)
         IN  n + EncodedLength(Tail(instrs), address + n)

IsInstructionCall == op = "InstructionPatch"
IsBlobCall == op = "BlobPatch"
IsSetCall == op = "PatchSet"

Failed == result.error # "none"
Resolved == result.error # "invalid_address"

\* what the disassembler finds in the region_size bytes read at the resolved
\* offset of the buffer the call was given
PreImage ==
    disasm(GetSlice(before, result.patch_file_offset,
                    result.patch_file_offset + SumTypicalSize(patch.orig_instructions)),
           patch.address)

Min(a, b) == IF a < b THEN a ELSE b

-----------------------------------------------------------------------------
(* C1 *)

\* C1: an InstructionPatch with declared originals, applied where the targeted
\* bytes disassemble to an instruction whose canonical text differs from the
\* declared one at some position, fails and leaves the buffer as it was.
C1_TextMismatchFails ==
    (/\ IsInstructionCall
     /\ Resolved
     /\ patch.orig_instructions # <<>>
     /\ \E i \in 1..Min(Len(PreImage), Len(patch.orig_instructions)) :
            CanonicalText(PreImage[i]) # patch.orig_instructions[i])
    => (Failed /\ data = before)

\* two instructions are declared and found, the first as declared, the second
\* not: the call raised on the text and wrote nothing
C1_Witness ==
    /\ IsInstructionCall
    /\ Len(patch.orig_instructions) = 2
    /\ Len(PreImage) = 2
    /\ CanonicalText(PreImage[1]) = patch.orig_instructions[1]
    /\ CanonicalText(PreImage[2]) # patch.orig_instructions[2]
    /\ result.error = "orig_text"
    /\ data = before

-----------------------------------------------------------------------------
(* C2 *)

\* C2: an InstructionPatch whose replacements all round-trip and whose
\* pre-image check passes or is skipped (and whose declared length, if any, is
\* met) succeeds, and afterwards the region of the buffer that starts at the
\* resolved offset and is as long as the encodings disassembles to exactly the
\* replacement instructions, in order.
C2_SuccessReproducesReplacement ==
    LET n == EncodedLength(patch.patched_instructions, patch.address)
        offset == result.patch_file_offset
    IN  (/\ IsInstructionCall
         /\ Resolved
         /\ result.error \notin {"orig_count", "orig_text"}
         /\ AllRoundTrip(patch.patched_instructions, patch.address)
         /\ (patch.expected_length = None \/ patch.expected_length = Some(n)))
        => (/\ ~Failed
            /\ RegionInside(data, offset, n)
            /\ CanonicalTexts(disasm(Region(data, offset, n), patch.address))
                    = patch.patched_instructions)

-----------------------------------------------------------------------------
(* C3 *)

\* C3: an InstructionPatch that declares an expected total length E, lies
\* inside the buffer and passes every earlier check fails iff the summed encoded lengths of its
\* replacements differ from E, whatever integer E is.
C3_LengthCheckedForEveryDeclaredValue ==
    (/\ IsInstructionCall
     /\ patch.expected_length # None
     /\ RegionInside(before, result.patch_file_offset,
                     EncodedLength(patch.patched_instructions, patch.address))
     /\ result.error \in {"none", "length"})
    => (Failed <=>
            EncodedLength(patch.patched_instructions, patch.address)
                # patch.expected_length[1])

-----------------------------------------------------------------------------
(* C4 *)

\* C4: a BlobPatch whose resolved offset is negative, or whose payload would
\* end past the end of the buffer, fails and leaves contents and length of the
\* buffer unchanged.
C4_BlobOutOfBoundsRejected ==
    (/\ IsBlobCall
     /\ Resolved
     /\ \/ result.patch_file_offset < 0
        \/ result.patch_file_offset + Len(patch.new_content) > Len(before))
    => (Failed /\ data = before)

-----------------------------------------------------------------------------
(* C5 *)

\* the offsets a BlobPatch member writes
BlobRange(p) ==
    {(p.address - image_base_address) + i : i \in 0..(Len(p.new_content) - 1)}

\* a BlobPatch member the container can resolve and whose payload lies inside
\* the buffer
BlobInBounds(p, buf) ==
    /\ p.kind = "BlobPatch"
    /\ image.macho => file_offset_for_virtual_address(image, p.address).ok
    /\ RegionInside(buf, p.address - image_base_address, Len(p.new_content))

\* C5: a PatchSet of two in-bounds BlobPatches with overlapping ranges leaves
\* the later member's payload in the overlap and the earlier member's payload
\* in the bytes only the earlier one wrote.
C5_LaterMemberWinsOverlap ==
    (/\ IsSetCall
     /\ Len(patch.patches) = 2
     /\ BlobInBounds(patch.patches[1], before)
     /\ BlobInBounds(patch.patches[2], before)
     /\ BlobRange(patch.patches[1]) \cap BlobRange(patch.patches[2]) # {})
    => LET first == patch.patches[1]
           second == patch.patches[2]
       IN  /\ ~Failed
           /\ \A i \in 1..Len(second.new_content) :
                  data[(second.address - image_base_address) + i] = second.new_content[i]
           /\ \A i \in 1..Len(first.new_content) :
                  ((first.address - image_base_address) + i - 1) \notin BlobRange(second)
                  => data[(first.address - image_base_address) + i] = first.new_content[i]

\* the earlier member wrote <<1, 2, 3>>, the later <<0, 0>> over its last two
\* bytes: the first byte is the earlier member's, the overlap the later one's
C5_Witness ==
    /\ IsSetCall
    /\ ~Failed
    /\ Len(patch.patches) = 2
    /\ patch.patches[1].kind = "BlobPatch" /\ patch.patches[2].kind = "BlobPatch"
    /\ patch.patches[1].new_content = <<1, 2, 3>>
    /\ patch.patches[2].new_content = <<0, 0>>
    /\ patch.patches[2].address = patch.patches[1].address + 1
    /\ BlobInBounds(patch.patches[1], before)
    /\ Region(data, patch.patches[1].address - image_base_address, 3) = <<1, 0, 0>>

-----------------------------------------------------------------------------
(* C7 *)

\* C7: on a raw image both InstructionPatch and BlobPatch resolve the offset
\* they write at as address - base_address, and a successful write that fits
\* the buffer puts the new bytes exactly there.
C7_RawOffsetIsAddressMinusBase ==
    (/\ ~image.macho
     /\ IsInstructionCall \/ IsBlobCall)
    => LET offset == patch.address - image_base_address
           n == result.patch_length
       IN  /\ result.patch_file_offset = offset
           /\ (~Failed /\ RegionInside(before, offset, n))
              => /\ RegionInside(data, offset, n)
                 /\ IsBlobCall => Region(data, offset, n) = patch.new_content
                 /\ IsInstructionCall
                    => CanonicalTexts(disasm(Region(data, offset, n), patch.address))
                            = patch.patched_instructions

\* base 16, address 18: an instruction was written at file offset 2
C7_Witness ==
    /\ ~image.macho
    /\ IsInstructionCall
    /\ image_base_address = 16
    /\ patch.address = 18
    /\ result.patch_file_offset = 2
    /\ ~Failed
    /\ data # before
    /\ Region(data, 2, 2) = <<1, 2>>

-----------------------------------------------------------------------------
(* C8 *)

\* C8: on a Mach-O the offset a patch writes its bytes at is the container's own lookup
\* of the patch address, whatever base_address the caller passed, for
\* BlobPatch as for InstructionPatch.
C8_MachoOffsetIgnoresBase ==
    (/\ image.macho
     /\ IsInstructionCall \/ IsBlobCall
     /\ Resolved
     /\ ~Failed
     /\ result.patch_length > 0)
    => result.patch_file_offset
            = file_offset_for_virtual_address(image, patch.address).offset

-----------------------------------------------------------------------------
(* C9 *)

\* C9: an InstructionPatch on a raw image whose offset address - base_address
\* is negative or at or past the end of the buffer, or whose replacement bytes
\* would end past the end of the buffer, fails with the buffer untouched.
C9_InstructionOutOfRangeRejected ==
    LET offset == patch.address - image_base_address
        n == EncodedLength(patch.patched_instructions, patch.address)
    IN  (/\ ~image.macho
         /\ IsInstructionCall
         /\ \/ offset < 0
            \/ offset >= Len(before)
            \/ offset + n > Len(before))
        => (Failed /\ data = before)

-----------------------------------------------------------------------------
(* C10 *)

\* C10: an InstructionPatch with declared originals, applied where the
\* region_size bytes at the resolved offset disassemble to a number of
\* instructions other than the number declared (the region may be cut short by
\* the end of the buffer), fails and leaves the buffer as it was.
C10_CountMismatchFails ==
    (/\ IsInstructionCall
     /\ Resolved
     /\ patch.orig_instructions # <<>>
     /\ Len(PreImage) # Len(patch.orig_instructions))
    => (Failed /\ data = before)

\* two originals are declared two bytes before the end of the buffer: the one
\* instruction that is there is as declared, and the call raised on the count
C10_Witness ==
    /\ IsInstructionCall
    /\ Len(patch.orig_instructions) = 2
    /\ result.patch_file_offset = Len(before) - 2
    /\ Len(PreImage) = 1
    /\ CanonicalText(PreImage[1]) = patch.orig_instructions[1]
    /\ result.error = "orig_count"
    /\ data = before

-----------------------------------------------------------------------------
(* C6 *)

\* event i of the log is the call `call`
IsEvent(i, call) == events[i].call = call

\* C6: in every call of DmgPatchSet.apply and of RamdiskBinaryPatch.apply,
\* once the attach of the image has succeeded a detach is issued before apply
\* returns or raises.
C6_AttachIsFollowedByDetach ==
    (op \in {"DmgPatchSet", "RamdiskBinaryPatch"})
    => \A i \in 1..Len(events) :
            (IsEvent(i, "attach") /\ events[i].ok)
            => \E j \in (i + 1)..Len(events) : IsEvent(j, "detach")

-----------------------------------------------------------------------------
(* C11 *)

\* C11: an InstructionPatch whose declared originals are the canonical texts
\* of the instructions the targeted region decodes to, one of them without
\* operands (its text is the bare mnemonic), passes the pre-image
\* verification.
C11_OperandlessOriginalVerifies ==
    (/\ IsInstructionCall
     /\ Resolved
     /\ patch.orig_instructions # <<>>
     /\ CanonicalTexts(PreImage) = patch.orig_instructions
     /\ \E i \in 1..Len(PreImage) : PreImage[i].op_str = "")
    => result.error \notin {"orig_count", "orig_text"}

-----------------------------------------------------------------------------
(* C12 *)

\* C12: when replacement k of an InstructionPatch is the first whose assembled
\* bytes decode to no instruction, to more than one, or to one whose canonical
\* text is not the declared text, apply fails on that instruction having
\* written the k - 1 instructions before it and nothing else: the buffer is
\* untouched when k = 1, and where the earlier writes lie inside the buffer
\* the bytes from the cursor offset of instruction k on are as they were.
C12_MismatchWritesNothingFurther ==
    \A k \in 1..Len(IF IsInstructionCall THEN patch.patched_instructions ELSE <<>>) :
        LET prefix == SubSeq(patch.patched_instructions, 1, k - 1)
            n == EncodedLength(prefix, patch.address)
            asm == assemble(patch.address + n, patch.patched_instructions[k])
            back == disasm(asm.bytes, patch.address + n)
            cursor == result.patch_file_offset + n
        IN  (/\ Resolved
             /\ result.error \notin {"orig_count", "orig_text"}
             /\ AllRoundTrip(prefix, patch.address)
             /\ asm.ok
             /\ Len(back) # 1 \/ CanonicalText(back[1]) # patch.patched_instructions[k])
            => /\ result.error \in {"disasm_count", "disasm_text"}
               /\ result.patch_length = n
               /\ k = 1 => data = before
               /\ RegionInside(before, result.patch_file_offset, n)
                  => /\ Len(data) = Len(before)
                     /\ \A i \in (cursor + 1)..Len(before) : data[i] = before[i]

\* the first replacement was written at offset 0, the second assembled to
\* bytes that decode to another text: the call raised, and the bytes at
\* offset 2, which the second would have changed, are as they were
C12_Witness ==
    /\ IsInstructionCall
    /\ patch.patched_instructions = <<"movs r0, #2", "mov r0, #1">>
    /\ result.error = "disasm_text"
    /\ result.patch_file_offset = 0
    /\ Region(data, 0, 2) = <<1, 2>>
    /\ Region(before, 2, 2) # <<1, 1>>
    /\ Region(data, 2, 4) = Region(before, 2, 4)

\* the one replacement assembled to bytes that decode to no instruction
C12_WitnessNoInstruction ==
    /\ IsInstructionCall
    /\ patch.patched_instructions = <<".short 0x0303">>
    /\ result.error = "disasm_count"
    /\ RegionInside(before, result.patch_file_offset, 2)
    /\ Region(before, result.patch_file_offset, 2) # <<3, 3>>
    /\ data = before

-----------------------------------------------------------------------------
(* C13 *)

\* what the first member of the set does to the buffer the set was given
FirstMember == PatchApply(patch.patches[1], image, image_base_address, before)

\* the set is two InstructionPatches at one address, the first of which
\* succeeds inside the buffer, the second of which declares originals
IsOverwriteThenVerify ==
    /\ IsSetCall
    /\ Len(patch.patches) = 2
    /\ patch.patches[1].kind = "InstructionPatch"
    /\ patch.patches[2].kind = "InstructionPatch"
    /\ patch.patches[1].address = patch.patches[2].address
    /\ patch.patches[2].orig_instructions # <<>>
    /\ FirstMember.error = "none"
    /\ RegionInside(before, FirstMember.patch_file_offset, FirstMember.patch_length)

\* the texts the region the second member verifies held before the set ran
PreSetTexts ==
    CanonicalTexts(
        disasm(GetSlice(before, FirstMember.patch_file_offset,
                        FirstMember.patch_file_offset
                            + SumTypicalSize(patch.patches[2].orig_instructions)),
               patch.patches[2].address))

\* C13: in a PatchSet of two InstructionPatches at one address, the second
\* member's pre-image verification reads what the first wrote: it passes when
\* the second declares as originals the instructions the first wrote, and it
\* fails, the first member's bytes staying in the buffer, when the second
\* declares the instructions that were there before the set and that the first
\* replaced by others.
C13_LaterMemberVerifiesAgainstEarlierWrites ==
    IsOverwriteThenVerify
    => LET first == patch.patches[1]
           second == patch.patches[2]
       IN  /\ (second.orig_instructions = first.patched_instructions)
              => result.error \notin {"orig_count", "orig_text"}
           /\ (/\ second.orig_instructions = PreSetTexts
               /\ second.orig_instructions # first.patched_instructions)
              => /\ result.error \in {"orig_count", "orig_text"}
                 /\ data = FirstMember.data

\* the same with the second member's originals all having operands
C13_WithOperands ==
    (\A i \in 1..Len(IF IsOverwriteThenVerify
                     THEN patch.patches[2].orig_instructions ELSE <<>>) :
        patch.patches[2].orig_instructions[i] # "nop")
    => C13_LaterMemberVerifiesAgainstEarlierWrites

-----------------------------------------------------------------------------
(* C14 *)

\* the members of a list of patches with every PatchSet replaced, at any
\* depth, by its own members in their order
RECURSIVE FlatMembers(_)
FlatMembers(patches) ==
    IF patches = <<>> THEN <<>>
    ELSE (IF Head(patches).kind = "PatchSet"
          THEN FlatMembers(Head(patches).patches)
          ELSE <<Head(patches)>>)
         \o FlatMembers(Tail(patches))

\* the flattened members applied one by one, as top-level patches, to the
\* buffer the set was given
FlattenedRun ==
    apply_patches_loop(FlatMembers(patch.patches), image, image_base_address, before)

\* C14: applying a PatchSet, whatever PatchSets are nested in it, leaves the
\* buffer that applying its flattened members one by one in the same order
\* leaves, and fails exactly when that fails.
C14_PatchSetIsFlattenedMembers ==
    IsSetCall
    => /\ data = FlattenedRun.data
       /\ Failed <=> (FlattenedRun.error # "none")
       /\ result.error = FlattenedRun.error

\* two sets side by side in a set, three members in all: every member
\* succeeded and the buffer is changed as the three in a row change it
C14_Witness ==
    /\ IsSetCall
    /\ Len(patch.patches) = 2
    /\ patch.patches[1].kind = "PatchSet"
    /\ patch.patches[2].kind = "PatchSet"
    /\ Len(FlatMembers(patch.patches)) = 3
    /\ FlatMembers(patch.patches)[1] # FlatMembers(patch.patches)[3]
    /\ ~Failed
    /\ data # before
    /\ data = FlattenedRun.data

-----------------------------------------------------------------------------
(* C15 *)

\* the run of the members before member k of the flattened set
MembersBefore(k) ==
    apply_patches_loop(SubSeq(FlatMembers(patch.patches), 1, k - 1),
                       image, image_base_address, before)

\* member k applied to the buffer the members before it left
MemberAlone(k) ==
    PatchApply(FlatMembers(patch.patches)[k], image, image_base_address,
               MembersBefore(k).data)

\* C15: when member k of a PatchSet is the first to fail, the set fails with
\* member k's error, and the buffer is the one member k left when it raised:
\* the writes of the members before k and the partial writes of k are kept,
\* and no member after k has written.
C15_FailureStopsTheSet ==
    \A k \in 1..Len(IF IsSetCall THEN FlatMembers(patch.patches) ELSE <<>>) :
        (MembersBefore(k).error = "none" /\ MemberAlone(k).error # "none")
        => /\ Failed
           /\ result.error = MemberAlone(k).error
           /\ data = MemberAlone(k).data

\* three members: the first wrote movs r0, #2 over a movs r0, #1, the second
\* verified it, wrote a nop over it and failed on its second replacement, the
\* third is a BlobPatch that would have written the byte 3 next to it: the nop
\* is in the buffer and the 3 is not
C15_Witness ==
    /\ IsSetCall
    /\ Len(FlatMembers(patch.patches)) = 3
    /\ FlatMembers(patch.patches)[1].kind = "InstructionPatch"
    /\ FlatMembers(patch.patches)[1].patched_instructions = <<"movs r0, #2">>
    /\ FlatMembers(patch.patches)[2].kind = "InstructionPatch"
    /\ FlatMembers(patch.patches)[2].orig_instructions = <<"movs r0, #2">>
    /\ FlatMembers(patch.patches)[3].kind = "BlobPatch"
    /\ result.error = "disasm_text"
    /\ Region(before, result.patch_file_offset, 2) = <<1, 1>>
    /\ Region(data, result.patch_file_offset, 2) = <<0, 0>>

-----------------------------------------------------------------------------
(* C16 *)

IsDmgSetCall == op = "DmgPatchSet"

\* some event of the log is the call `call`
Logged(call) == \E i \in 1..Len(events) : IsEvent(i, call)

\* some event of the log is the call `call`, and it failed
LoggedFailure(call) == \E i \in 1..Len(events) : IsEvent(i, call) /\ ~events[i].ok

\* C16: when DmgPatchSet.apply fails to write the scratch image, to resize it
\* or to attach it, apply fails, no filesystem patch is applied, no detach is
\* issued, and the caller's buffer is as it was.
C16_NoMountNoPatchNoDetach ==
    (/\ IsDmgSetCall
     /\ LoggedFailure("write_bytes") \/ LoggedFailure("resize") \/ LoggedFailure("attach"))
    => /\ Failed
       /\ ~Logged("patch")
       /\ ~Logged("detach")
       /\ ~Logged("read_bytes")
       /\ data = before

\* a set of two filesystem patches whose image was written and resized but
\* could not be attached
C16_Witness ==
    /\ IsDmgSetCall
    /\ Len(patch.patches) = 2
    /\ events = <<Ev("write_bytes", TRUE, 0), Ev("resize", TRUE, 0),
                  Ev("attach", FALSE, 0)>>
    /\ result.error = "attach"
    /\ data = before

-----------------------------------------------------------------------------
(* C17 *)

\* C17: in DmgPatchSet.apply the scratch file is read back into the buffer
\* only once the mount scope was left normally: every call logged before the
\* read-back succeeded, the last of them is the detach, and the buffer changes
\* in no call without a read-back.
C17_ReadBackOnlyAfterDetach ==
    IsDmgSetCall
    => /\ \A i \in 1..Len(events) :
            IsEvent(i, "read_bytes")
            => /\ i > 1
               /\ IsEvent(i - 1, "detach")
               /\ \A j \in 1..(i - 1) : events[j].ok
               /\ \E j \in 1..(i - 1) : IsEvent(j, "attach")
       /\ ~Logged("read_bytes") => data = before

\* both filesystem patches were applied, the image was detached, then read
\* back: the buffer holds the resized image with the two edits
C17_Witness ==
    /\ IsDmgSetCall
    /\ Len(patch.patches) = 2
    /\ ~Failed
    /\ Len(events) = 7
    /\ IsEvent(6, "detach") /\ events[6].ok
    /\ IsEvent(7, "read_bytes")
    /\ data # before
    /\ data.edits = before.edits \o patch.patches

-----------------------------------------------------------------------------
(* C18 *)

\* the indices of the log's filesystem patch applications
PatchEvents == {i \in 1..Len(events) : IsEvent(i, "patch")}

\* C18: DmgPatchSet.apply applies its filesystem patches in declaration
\* order, each of them after the attach succeeded and before the detach is
\* issued: the applications logged are patch 1, 2, ... in a row, and when
\* apply succeeds the image holds the edits of all of them in that order.
C18_PatchesInOrderWhileMounted ==
    IsDmgSetCall
    => /\ \A i \in PatchEvents :
            /\ \E j \in 1..(i - 1) : IsEvent(j, "attach") /\ events[j].ok
            /\ \A j \in 1..(i - 1) : ~IsEvent(j, "detach")
            /\ \E j \in (i + 1)..Len(events) : IsEvent(j, "detach")
            /\ events[i].arg = Cardinality({j \in PatchEvents : j <= i})
            /\ events[i].arg <= Len(patch.patches)
       /\ ~Failed
          => /\ Cardinality(PatchEvents) = Len(patch.patches)
             /\ data.edits = before.edits \o patch.patches

\* two different filesystem patches, applied first then second between the
\* attach and the detach
C18_Witness ==
    /\ IsDmgSetCall
    /\ Len(patch.patches) = 2
    /\ patch.patches[1] # patch.patches[2]
    /\ ~Failed
    /\ IsEvent(3, "attach") /\ events[3].ok
    /\ events[4] = Ev("patch", TRUE, 1)
    /\ events[5] = Ev("patch", TRUE, 2)
    /\ IsEvent(6, "detach")
    /\ data.edits = before.edits \o patch.patches

-----------------------------------------------------------------------------
(* C19 *)

\* from event i on the log holds the calls of `calls` in their order, each
\* having succeeded (other calls may lie between them)
RECURSIVE LoggedInOrder(_, _)
LoggedInOrder(calls, i) ==
    \/ calls = <<>>
    \/ \E j \in i..Len(events) :
            /\ IsEvent(j, Head(calls))
            /\ events[j].ok
            /\ LoggedInOrder(Tail(calls), j + 1)

\* C19: every successful application of a nested binary patch, DmgBinaryPatch
\* as RamdiskBinaryPatch, finds the file, reads its virtual base, reads its
\* bytes, applies the inner patch, writes the bytes back and then runs the
\* re-signing tool on the file, in that order.
C19_NestedBinaryPatchResigns ==
    (op \in {"DmgBinaryPatch", "RamdiskBinaryPatch"} /\ ~Failed)
    => LoggedInOrder(<<"exists", "virtual_base", "read_binary", "patch",
                       "write_back", "ldid">>, 1)

-----------------------------------------------------------------------------
(* C20 *)

IsRemoveTreeCall == op = "DmgRemoveTreePatch"

\* the entries of a tree, directories and files
Entries(tree) == tree.dirs \cup tree.files

\* the tree `after` is the tree `tree` without `path` and what lies beneath
\* it: every other entry is still there, as what it was
RemovedExactly(tree, path, after) ==
    /\ \A q \in Entries(tree) : q \in Entries(after) <=> ~Beneath(path, q)
    /\ Entries(after) \subseteq Entries(tree)
    /\ after.dirs \subseteq tree.dirs
    /\ after.files \subseteq tree.files
    /\ after.patched = tree.patched \cap after.files
    /\ after.content = {c \in tree.content : c[1] \in after.files}
    /\ after.mode = {m \in tree.mode : m[1] \in after.files}

\* C20 as claimed: DmgRemoveTreePatch.apply on a relative path that does not
\* exist under the mounted root fails and leaves the tree unchanged; on a path
\* that exists it removes that path and everything beneath it and nothing
\* else.
C20_ExistingPathIsRemoved ==
    IsRemoveTreeCall
    => /\ ~PathExists(before, patch.tree_path) => (Failed /\ data = before)
       /\ PathExists(before, patch.tree_path)
          => (~Failed /\ RemovedExactly(before, patch.tree_path, data))

\* C20 as amended: DmgRemoveTreePatch.apply on a relative path that does not
\* exist under the mounted root, or that is a file, fails and leaves the tree
\* unchanged; on a path that is a directory it removes that directory and
\* everything beneath it and nothing else.
C20_DirectoryIsRemoved ==
    IsRemoveTreeCall
    => /\ ~PathExists(before, patch.tree_path) => (Failed /\ data = before)
       /\ patch.tree_path \in before.files => (Failed /\ data = before)
       /\ patch.tree_path \in before.dirs
          => (~Failed /\ RemovedExactly(before, patch.tree_path, data))

\* the directory bin, which held a file, was removed with it, and the entry
\* app next to it is still there
C20_Witness ==
    /\ IsRemoveTreeCall
    /\ patch.tree_path = <<"bin">>
    /\ <<"bin">> \in before.dirs
    /\ <<"bin", "app">> \in before.files
    /\ <<"app">> \in Entries(before)
    /\ ~Failed
    /\ Entries(data) = {q \in Entries(before) : q[1] = "app"}
    /\ <<"app">> \in Entries(data)

-----------------------------------------------------------------------------
(* C21 *)

IsReplaceCall == op = "DmgReplaceFileContentsPatch"

\* the permissions a list names
Listed(perms) == {perms[k] : k \in 1..Len(perms)}

\* C21: DmgReplaceFileContentsPatch.apply, where no parent of the path is a
\* file, the path is no directory and every chmod exits 0, succeeds having
\* made the missing parent directories, then the file with exactly the given
\* bytes, then one chmod per listed permission in list order; the file
\* grants what it granted before (after the write) and every listed
\* permission, and nothing else in the tree has changed.
C21_ReplaceWritesThenGrants ==
    (/\ IsReplaceCall
     /\ Parents(patch.file_path) \cap before.files = {}
     /\ patch.file_path \notin before.dirs
     /\ ~LoggedFailure("chmod"))
    => LET path == patch.file_path
           perms == patch.new_permissions
       IN  /\ ~Failed
           /\ data.dirs = before.dirs \cup Parents(path)
           /\ data.files = before.files \cup {path}
           /\ ContentOf(data, path) = {patch.new_content}
           /\ ModeOf(before, path) \subseteq ModeOf(data, path)
           /\ Listed(perms) \subseteq ModeOf(data, path)
           /\ path \in before.files
              => ModeOf(data, path) = ModeOf(before, path) \cup Listed(perms)
           /\ events = <<Ev("mkdir", TRUE, 0), Ev("write_bytes", TRUE, 0)>>
                        \o [k \in 1..Len(perms) |-> Ev("chmod", TRUE, k)]
           /\ \A q \in before.files \ {path} :
                /\ ContentOf(data, q) = ContentOf(before, q)
                /\ ModeOf(data, q) = ModeOf(before, q)

\* the two bytes <<1, 2>> were written to bin/app where there was no bin, with
\* Read and Write: the directory was made and the file is readable, writable
\* and two bytes long
C21_Witness ==
    /\ IsReplaceCall
    /\ patch.file_path = <<"bin", "app">>
    /\ patch.new_content = <<1, 2>>
    /\ patch.new_permissions = <<"r", "w">>
    /\ <<"bin">> \notin Entries(before)
    /\ ~Failed
    /\ <<"bin">> \in data.dirs
    /\ ContentOf(data, <<"bin", "app">>) = {<<1, 2>>}
    /\ {"r", "w"} \subseteq ModeOf(data, <<"bin", "app">>)

\* the executable file bin was rewritten and granted Read and Write: it is
\* still executable
C21_WitnessKeepsBits ==
    /\ IsReplaceCall
    /\ patch.file_path = <<"bin">>
    /\ patch.new_permissions = <<"r", "w">>
    /\ "x" \in ModeOf(before, <<"bin">>)
    /\ ~Failed
    /\ ModeOf(data, <<"bin">>) = {"r", "w", "x"}

-----------------------------------------------------------------------------
(* C22 *)

\* the encodings of a list that assembles, one after the other
RECURSIVE EncodedBytes(_, _)
EncodedBytes(instrs, address) ==
    IF instrs = <<>> THEN <<>>
    ELSE LET bytes == assemble(address, Head(instrs)).bytes
         IN  bytes \o EncodedBytes(Tail(instrs), address + Len(bytes))

\* replacement k of the call's patch is the first that does not assemble or
\* does not decode back to exactly its own text
FirstBadReplacement(k) ==
    /\ IsInstructionCall
    /\ Resolved
    /\ result.error \notin {"orig_count", "orig_text"}
    /\ k \in 1..Len(patch.patched_instructions)
    /\ AllRoundTrip(SubSeq(patch.patched_instructions, 1, k - 1), patch.address)
    /\ ~AllRoundTrip(SubSeq(patch.patched_instructions, 1, k), patch.address)

\* C22: when replacement k of an InstructionPatch is the first to fail its
\* assemble/re-disassemble check, apply fails, the buffer holds the encodings
\* of the replacements before k one after the other from the resolved offset,
\* and every byte from the cursor offset of replacement k on is as it was
\* before the call.
C22_FailureKeepsEarlierWrites ==
    \A k \in 1..Len(IF IsInstructionCall THEN patch.patched_instructions ELSE <<>>) :
        FirstBadReplacement(k)
        => LET written == EncodedBytes(SubSeq(patch.patched_instructions, 1, k - 1),
                                       patch.address)
               offset == result.patch_file_offset
               cursor == offset + Len(written)
           IN  /\ Failed
               /\ GetSlice(data, offset, cursor) = written
               /\ GetSlice(data, cursor, cursor + Len(data))
                    = GetSlice(before, cursor, cursor + Len(before))

\* the same for the calls whose resolved offset lies inside the buffer
C22_InsideTheBuffer ==
    (IsInstructionCall /\ 0 <= result.patch_file_offset
                       /\ result.patch_file_offset <= Len(before))
    => C22_FailureKeepsEarlierWrites

-----------------------------------------------------------------------------
(* C23 *)

\* the edits `earlier` are the first edits of `later`, in the same order
StillPresent(earlier, later) ==
    /\ Len(earlier) <= Len(later)
    /\ SubSeq(later, 1, Len(earlier)) = earlier

\* C23: a patch applied to a buffer that earlier patches of the run have
\* edited leaves those edits in the buffer: no variant rebuilds the buffer
\* from the file on disk.
C23_EarlierMutationsKept ==
    (op \in {"DmgPatchSet", "RamdiskBinaryPatch", "MachoBlobPatch"} /\ ~Failed)
    => StillPresent(before.edits, data.edits)

\* the part of it DmgPatchSet meets: its scratch image is written from the
\* buffer
C23_DmgPatchSetKeeps ==
    (op = "DmgPatchSet" /\ ~Failed) => StillPresent(before.edits, data.edits)

-----------------------------------------------------------------------------
(* C24 *)

\* the buffer is as long as it was, and outside [offset, offset + n) it holds
\* the bytes it held
ChangedOnlyWithin(offset, n) ==
    /\ Len(data) = Len(before)
    /\ \A j \in 1..Len(before) :
           (j - 1 < offset \/ j - 1 >= offset + n) => data[j] = before[j]

\* C24: InstructionPatch and BlobPatch applications, alone or in sequence,
\* succeeding or failing, leave the length of the buffer as it was, and a
\* successful application changes only the bytes in
\* [offset, offset + written_length) of its resolved offset.
C24_LengthKeptAndWritesConfined ==
    /\ (IsInstructionCall \/ IsBlobCall \/ IsSetCall) => Len(data) = Len(before)
    /\ ((IsInstructionCall \/ IsBlobCall) /\ ~Failed)
       => ChangedOnlyWithin(result.patch_file_offset, result.patch_length)

\* the same for the single calls whose written range lies inside the buffer
C24_InsideTheBuffer ==
    ((IsInstructionCall \/ IsBlobCall)
        /\ RegionInside(before, result.patch_file_offset, result.patch_length))
    => /\ Len(data) = Len(before)
       /\ ~Failed => ChangedOnlyWithin(result.patch_file_offset, result.patch_length)

-----------------------------------------------------------------------------
(* The state machine of the replacement loop: one call of                   *)
(* InstructionPatch.apply, with replacement lists in which a 4-byte         *)
(* instruction comes first, on the buffers of InitSets.                     *)

LoopPatchedLists ==
    PatchedLists \cup {<<"bl #26", "movs r0, #2">>, <<"bl #26", "bl #30">>}

LoopPatches ==
    [kind : {"InstructionPatch"}, address : InstrAddresses,
     orig_instructions : {<<>>, <<"nop">>, <<"movs r0, #1">>},
     patched_instructions : LoopPatchedLists,
     expected_length : ExpectedLengths]

ApplyLoopPatch ==
    \E p \in LoopPatches :
        Applied("InstructionPatch", p)

NextLoop == ApplyLoopPatch

SpecLoop == InitSets /\ [][NextLoop]_vars

-----------------------------------------------------------------------------
(* C25 *)

\* the loop over the replacements ran to its end
LoopCompleted ==
    IsInstructionCall /\ Resolved /\ result.error \in {"none", "length"}

\* C25: the address cursor and the file-offset cursor of InstructionPatch
\* advance together by the encoded length of each replacement: replacement i
\* is assembled at the address plus the encoded lengths of the replacements
\* before it and written at the resolved offset plus the same sum, the written
\* ranges follow one another without gap or overlap, and patch_length is the
\* sum of the encoded lengths.
C25_CursorsAdvanceByEncodedLength ==
    LoopCompleted
    => LET instrs == patch.patched_instructions
           offset == result.patch_file_offset
           total == EncodedLength(instrs, patch.address)
       IN  /\ result.patch_length = total
           /\ RegionInside(before, offset, total)
              => /\ ChangedOnlyWithin(offset, total)
                 /\ \A i \in 1..Len(instrs) :
                        LET sum == EncodedLength(SubSeq(instrs, 1, i - 1), patch.address)
                            bytes == assemble(patch.address + sum, instrs[i]).bytes
                        IN  Region(data, offset + sum, Len(bytes)) = bytes

\* a 4-byte replacement followed by another one, written inside the buffer
C25_Witness ==
    /\ LoopCompleted
    /\ patch.patched_instructions = <<"bl #26", "movs r0, #2">>
    /\ RegionInside(before, result.patch_file_offset, 6)
    /\ result.patch_length = 6

\* an address-relative replacement assembled at the advanced address cursor
C25_WitnessAddressCursor ==
    /\ LoopCompleted
    /\ patch.patched_instructions = <<"movs r0, #2", "bl #26">>
    /\ RegionInside(before, result.patch_file_offset, 6)
    /\ Region(data, result.patch_file_offset + 2, 4)
         = assemble(patch.address + 2, "bl #26").bytes

-----------------------------------------------------------------------------
(* C26 *)

\* apply raised the final check of the declared total length
LengthMismatch == IsInstructionCall /\ result.error = "length"

\* C26: when InstructionPatch.apply fails because the total patch length
\* differs from the declared expected length, every replacement has been
\* written by then: the buffer holds all the replacement instructions, one
\* after the other from the resolved offset, and is not rolled back.
C26_LengthMismatchAfterAllWrites ==
    LengthMismatch
    => LET written == EncodedBytes(patch.patched_instructions, patch.address)
           offset == result.patch_file_offset
       IN  /\ result.patch_length = Len(written)
           /\ result.patch_length # patch.expected_length[1]
           /\ RegionInside(before, offset, Len(written))
              => /\ Region(data, offset, Len(written)) = written
                 /\ ChangedOnlyWithin(offset, Len(written))

\* a length mismatch that left two new instructions in the buffer
C26_Witness ==
    /\ LengthMismatch
    /\ Len(patch.patched_instructions) = 2
    /\ RegionInside(before, result.patch_file_offset, result.patch_length)
    /\ Region(data, result.patch_file_offset, result.patch_length)
         # Region(before, result.patch_file_offset, result.patch_length)

-----------------------------------------------------------------------------
(* C27 *)

\* the call's patch declares no original instructions, as quick and shellcode
\* build it
NoOriginals == IsInstructionCall /\ patch.orig_instructions = <<>>

\* what decides the outcome of such a call: the container resolves the
\* address, every replacement round-trips, and the declared length, if one is
\* checked, is met.  The buffer does not occur in it.
PassesWhateverTheBytes ==
    /\ InstructionPatchOffset(patch, image, image_base_address).ok
    /\ AllRoundTrip(patch.patched_instructions, patch.address)
    /\ LengthCheck(patch, EncodedLength(patch.patched_instructions, patch.address))
         = "none"

\* C27: an InstructionPatch with an empty list of originals skips the
\* verification of the pre-image: no check of the originals ever fails, and
\* whether apply succeeds does not depend on the bytes the buffer held.
C27_EmptyOriginalsSkipVerification ==
    NoOriginals
    => /\ result.error \notin {"orig_count", "orig_text"}
       /\ ~Failed <=> PassesWhateverTheBytes

\* a patch without originals succeeds over bytes that decode to an
\* instruction
C27_Witness ==
    /\ NoOriginals
    /\ ~Failed
    /\ RegionInside(before, result.patch_file_offset, 2)
    /\ Len(disasm(Region(before, result.patch_file_offset, 2), patch.address)) = 1

\* and over bytes that decode to nothing
C27_WitnessUndecodable ==
    /\ NoOriginals
    /\ ~Failed
    /\ RegionInside(before, result.patch_file_offset, 2)
    /\ disasm(Region(before, result.patch_file_offset, 2), patch.address) = <<>>

-----------------------------------------------------------------------------
(* C28 *)

\* C28: when a filesystem patch of a DmgPatchSet fails, or the detach fails,
\* apply fails, no filesystem patch after the failing one is applied, the
\* scratch file is not read back, and the caller's buffer is as it was before
\* the call.
C28_FailureInTheMountLeavesBuffer ==
    (IsDmgSetCall /\ (LoggedFailure("patch") \/ LoggedFailure("detach")))
    => /\ Failed
       /\ \A i \in PatchEvents :
              ~events[i].ok => \A j \in PatchEvents : j <= i
       /\ ~Logged("read_bytes")
       /\ data = before

\* the first of two filesystem patches failed: the second was not applied,
\* the image was detached, and the buffer with its earlier edit is untouched
C28_Witness ==
    /\ IsDmgSetCall
    /\ Len(patch.patches) = 2
    /\ events = <<Ev("write_bytes", TRUE, 0), Ev("resize", TRUE, 0),
                  Ev("attach", TRUE, 0), Ev("patch", FALSE, 1),
                  Ev("detach", TRUE, 0)>>
    /\ result.error = "patch"
    /\ before.edits = <<"earlier">>
    /\ data = before

\* both filesystem patches were applied and the detach failed
C28_WitnessDetachFails ==
    /\ IsDmgSetCall
    /\ events = <<Ev("write_bytes", TRUE, 0), Ev("resize", TRUE, 0),
                  Ev("attach", TRUE, 0), Ev("patch", TRUE, 1), Ev("patch", TRUE, 2),
                  Ev("detach", FALSE, 0)>>
    /\ result.error = "detach"
    /\ data = before

-----------------------------------------------------------------------------
(* C29 *)

\* the indices of the log's calls `call`
EventsOf(call) == {i \in 1..Len(events) : IsEvent(i, call)}

\* the mounts live once event i is over: the successful attaches up to i that
\* no successful detach has followed
LiveMounts(i) ==
    {j \in 1..i :
        /\ IsEvent(j, "attach") /\ events[j].ok
        /\ ~\E k \in (j + 1)..i : IsEvent(k, "detach") /\ events[k].ok}

C29_WitnessDetachFails ==
    /\ IsDmgSetCall
    /\ LoggedFailure("detach")
    /\ LiveMounts(Len(events)) # {}

-----------------------------------------------------------------------------
(* C30 *)

\* byte count a is at least byte count b
AtLeast(a, b) ==
    \/ a.hi > b.hi
    \/ a.hi = b.hi /\ a.mid > b.mid
    \/ a.hi = b.hi /\ a.mid = b.mid /\ a.lo >= b.lo

\* byte count a and n MiB more
PlusMiB(a, n) == ByteCount(a.hi, a.mid + n, a.lo)

\* the size requested for the scratch image is a whole number of MiB, at
\* least the current size and 4 MiB, and less than the current size and 5 MiB:
\* the smallest such number of MiB
SmallestWithHeadroom(current, requested) ==
    /\ requested.lo = 0
    /\ AtLeast(requested, PlusMiB(current, 4))
    /\ ~AtLeast(requested, PlusMiB(current, 5))

C30_BelowFloatPrecision ==
    (IsDmgSetCall /\ ~Failed /\ ~AtLeast(PlusMiB(before.size, 4), ByteCount(Pow2(13), 0, 0)))
    => SmallestWithHeadroom(before.size, data.size)

-----------------------------------------------------------------------------
(* C31 *)

IsBinaryCall == op = "DmgBinaryPatch"

\* C31: DmgBinaryPatch.apply leaves the target file in the mounted tree
\* unchanged on failure: an absent file is not created, and the buffer is
\* written back only after the inner patch returned.
C31_FailureLeavesTheFile ==
    (IsBinaryCall /\ Failed) => data = before

\* the two failures the claim names, and the failure to parse the file: the
\* tree is as it was, and a write-back is only ever logged right after the
\* inner patch succeeded
C31_NamedFailuresLeaveTheFile ==
    IsBinaryCall
    => /\ result.error \in {"exists", "virtual_base", "patch"}
          => (data = before /\ ~Logged("write_back"))
       /\ ~PathExists(before, patch.binary_path)
          => (result.error = "exists" /\ ~PathExists(data, patch.binary_path))
       /\ \A i \in 1..Len(events) :
              IsEvent(i, "write_back")
              => (i > 1 /\ events[i - 1] = Ev("patch", TRUE, 1))

-----------------------------------------------------------------------------
(* C32 *)

IsApplyPatchesCall == op = "apply_patches"

\* the buffer once the first k patches of the list have been applied one
\* after the other to the bytes of the input
RECURSIVE BufferAfter(_)
BufferAfter(k) ==
    IF k = 0 THEN before
    ELSE PatchApply(patch.patches[k], image, image_base_address, BufferAfter(k - 1)).data

\* patch k of the list, applied to what the patches before it left, succeeds
SucceedsInTurn(k) ==
    PatchApply(patch.patches[k], image, image_base_address, BufferAfter(k - 1)).error
        = "none"

\* C32: apply_patches patches a private copy of the input file's bytes with
\* the patches of the list in order and writes the output file only when
\* every patch has succeeded; when a patch fails the output file is not
\* written; the bytes of the input file are the same afterwards either way.
C32_OutputOnlyAfterEveryPatch ==
    IsApplyPatchesCall
    => LET n == Len(patch.patches)
       IN  /\ result.input = before
           /\ ~Failed <=> \A k \in 1..n : SucceedsInTurn(k)
           /\ ~Failed => (result.output = Some(BufferAfter(n)) /\ Logged("write_bytes"))
           /\ Failed => (result.output = None /\ ~Logged("write_bytes"))

\* the second of three patches failed after the first had changed the
\* private copy: no output file, the input as it was
C32_Witness ==
    /\ IsApplyPatchesCall
    /\ Len(patch.patches) = 3
    /\ SucceedsInTurn(1)
    /\ ~SucceedsInTurn(2)
    /\ BufferAfter(1) # before
    /\ data # before
    /\ result.output = None
    /\ result.input = before

\* three patches succeeded in an order that matters: the output file holds
\* what they left
C32_WitnessWritten ==
    /\ IsApplyPatchesCall
    /\ ~Failed
    /\ patch.patches[1].kind = "InstructionPatch"
    /\ patch.patches[1].orig_instructions = <<"movs r0, #1">>
    /\ patch.patches[2].kind = "InstructionPatch"
    /\ patch.patches[2].orig_instructions = <<>>
    /\ result.output = Some(data)
    /\ data # before

-----------------------------------------------------------------------------
(* C33 *)

\* buffer `other` differs from `buf` at most at the offsets the patch targets
DiffersOnlyInside(other, buf, p) ==
    /\ Len(other) = Len(buf)
    /\ \A j \in 1..Len(buf) : (j - 1) \notin BlobRange(p) => other[j] = buf[j]

\* C33: applying an in-bounds BlobPatch is idempotent and independent of the
\* pre-image: applied again to the buffer it left it leaves the same buffer,
\* and applied to any buffer that differs from the first only inside the
\* targeted range it leaves that same buffer too.
C33_BlobPatchIdempotentAndBlind ==
    (IsBlobCall /\ BlobInBounds(patch, before))
    => /\ BlobPatchApply(patch, image, image_base_address, data).data = data
       /\ \A other \in Buffers :
              DiffersOnlyInside(other, before, patch)
              => BlobPatchApply(patch, image, image_base_address, other).data = data

\* a two-byte payload written over different bytes inside the buffer
C33_Witness ==
    /\ IsBlobCall
    /\ BlobInBounds(patch, before)
    /\ ~Failed
    /\ Len(patch.new_content) >= 2
    /\ data # before
    /\ \E other \in Buffers : other # before /\ DiffersOnlyInside(other, before, patch)

====
